---------------------------- MODULE Spec2Model ----------------------------
(***************************************************************************)
(* A model of restruc: the control-flow reconstruction (CFGraph,           *)
(* create_function, analyze), the optimal-coverage path enumeration, the   *)
(* context store of Recontex and the parent-chained Context, the Struc     *)
(* model, and the threads of Recontex::analyze within the phases of main.  *)
(*                                                                         *)
(* Addresses are the positive integers of one section; 0 is nullptr.       *)
(* Every instruction has length InstrLen.                                  *)
(***************************************************************************)
EXTENDS Integers, Sequences, FiniteSets, TLC

\* ------------------------------------------------------------------------
\* Bounds of the model
\* ------------------------------------------------------------------------

\* Number of instruction slots of the image's code section.
ImageLen == 5

\* The images drawn hold at most MaxBranches calls and jumps, and their
\* calls lead to the addresses 1..MaxCallDst.
MaxBranches == 2

MaxCallDst == 2

\* Number of instructions of a flo handed to OptimalCoverage, and the
\* largest number of jumps among them.
MaxFloLen == 4

MaxFloJumps == 2

\* Contexts constructed, set_register/set_memory calls made on them, tracked
\* registers, and the largest value, source address and memory address.
MaxContexts == 2

MaxWrites == 3

MaxRegs == 2

MaxValue == 1

MaxSource == 2

MaxMemory == 1

\* A multimap entry's multiplicity is counted up to MaxDup and saturates
\* there: the control flow of the code never reads a multiplicity.
MaxDup == 2

\* Every modelled instruction is InstrLen long.
InstrLen == 1

\* Strucs alive, the largest field offset in units of OffsetUnit, the largest
\* array count of a field, the number of add_*_field and merge calls made,
\* and the depth of nested merge calls followed.
MaxStrucs == 2

MaxOffsetIndex == 2

MaxCount == 2

MaxStrucOps == 3

MaxMergeDepth == 4

\* Flos handed to Recontex::analyze and the largest max_analyzing_threads_.
MaxFlos == 3

MaxThreads == 2

\* The largest VirtualAddress and PointerToRawData of a section of a PE
\* (it has one or two sections), the largest size of one, and the largest
\* address translated.
MaxSectionStart == 5

MaxSectionSize == 2

MaxPEAddress == 8

\* Instructions handed to emulate on one context.
MaxEmulated == 3

\* Threads that call into one Struc at the same time.
MaxMutators == 2

\* Bits of the uintptr_t the stack pointer is computed in.
WordBits == 6

\* ------------------------------------------------------------------------
\* Generic helpers
\* ------------------------------------------------------------------------

Min(a, b) == IF a < b THEN a ELSE b

SetMax(S) == CHOOSE x \in S : \A y \in S : y <= x

SetMin(S) == CHOOSE x \in S : \A y \in S : x <= y

\* The elements of a finite set of integers in ascending order.
RECURSIVE SortedSeq(_)
SortedSeq(S) ==
    IF S = {} THEN << >>
    ELSE LET m == SetMin(S) IN <<m>> \o SortedSeq(S \ {m})

\* ------------------------------------------------------------------------
\* State
\* ------------------------------------------------------------------------

VARIABLES
    image,                  \* the decoded part of the section: address -> instruction
    functions_,             \* entry point -> finished cfgraph
    unanalyzed_functions_,  \* the worklist (a deque of entry points)
    cfgraph,                \* create_function's local cfgraph
    new_cfgraph,            \* resolve_incomplete_cfgraph's local sub-cfgraph
    next_address,           \* next_address of the running decode loop
    can_merge,              \* can_merge of resolve_incomplete_cfgraph
    unknown_jump_dst,       \* unknown_jump_dst of resolve_incomplete_cfgraph
    todo,                   \* destinations analyze() still hands to create_function
    pc,                     \* position in analyze / create_function
    pushes,                 \* entry point -> number of push_back calls (history)
    flo,                    \* the flo under OptimalCoverage: its disassembly
    cov_pc,                 \* position in OptimalCoverage::analyze
    nodes_,                 \* address -> Node
    ends_,                  \* addresses of the terminal nodes
    nodes_order_,           \* address -> topological index
    loops_,                 \* the loop edges
    useless_edges_,         \* the useless edges
    dfs_stack,              \* build_paths: the activations of dfs, innermost last
    path,                   \* build_paths: the path under construction
    paths_,                 \* the paths built
    trails,                 \* per built path, the branches dfs was in (history)
    visited_loops,          \* build_paths: loop edges on the dfs stack
    flo_contexts,           \* address -> the contexts stored there, in order
    af_stack,               \* the activations of analyze_flo, innermost last
    assertion,              \* the first assert of analyze_flo that was false (history)
    heap,                   \* the Context objects alive: id -> Context
    GLOBAL_ID,              \* the counter the context ids come from
    writes,                 \* number of set_register/set_memory calls made
    written,                \* the context the last step wrote to, 0 for none
    calls,                  \* id -> number of its set_register calls (history)
    strucs,                 \* the Struc objects: id -> [fields_, field_set_]
    struc_pc,               \* "run", or how a merge call ended the run
    struc_ops,              \* number of add_*_field and merge calls made
    last_op,                \* the last call made on a Struc (history)
    max_analyzing_threads_, \* Recontex: the cap on running tasks
    analyzing_threads_count_, \* Recontex: the slots taken
    analyzing_threads_,     \* Recontex: the threads launched, in order
    analyzing_threads_mutex_, \* its owner: "free", "main" or "task"
    cv_waiting,             \* main is blocked in analyzing_threads_cv_.wait
    main_pc,                \* position of the thread running Recontex::analyze
    flos_left,              \* flos analyze() has not yet handed to run_analysis
    joined,                 \* threads wait_for_analysis has joined
    task_pc,                \* task -> position in the thread function
    task_exit,              \* task -> the way its thread function ended (history)
    decrements,             \* task -> times it decremented the counter (history)
    notifies,               \* task -> times it called notify_all (history)
    contexts_,              \* Recontex: the flos whose contexts are stored
    debug_i,                \* flos a loop over reflo_.get_flos() has passed
    pe,                     \* a PE, and the last address translation asked of it
    emu,                    \* the last two instructions emulate was called for (history)
    mutators                \* the threads inside calls on Strucs, and the mutexes

refloVars == <<image, functions_, unanalyzed_functions_, cfgraph, new_cfgraph,
               next_address, can_merge, unknown_jump_dst, todo, pc, pushes>>

covVars == <<flo, cov_pc, nodes_, ends_, nodes_order_, loops_, useless_edges_,
             dfs_stack, path, paths_, trails, visited_loops>>

floVars == <<flo_contexts, af_stack, assertion>>

ctxVars == <<heap, GLOBAL_ID, writes, written, calls>>

strucVars == <<strucs, struc_pc, struc_ops, last_op>>

thrVars == <<max_analyzing_threads_, analyzing_threads_count_,
             analyzing_threads_, analyzing_threads_mutex_, cv_waiting,
             main_pc, flos_left, joined, task_pc, task_exit, decrements,
             notifies, contexts_, debug_i>>

vars == <<refloVars, covVars, floVars, ctxVars, strucVars, thrVars, pe, emu,
      mutators>>

\* What the control-flow reconstruction leaves alone.
nonRefloVars == <<covVars, floVars, ctxVars, strucVars, thrVars, pe, emu,
      mutators>>

\* What OptimalCoverage leaves alone.
nonCovVars == <<refloVars, floVars, ctxVars, strucVars, thrVars, pe, emu,
      mutators>>

\* What analyze_flo leaves alone: it constructs contexts and writes them.
nonFloVars == <<refloVars, writes, written, calls, strucVars, thrVars, pe, emu,
      mutators>>

\* What the operations of Context leave alone.
nonCtxVars == <<refloVars, covVars, floVars, strucVars, thrVars, pe, emu,
      mutators>>

\* What the operations of Struc leave alone.
nonStrucVars == <<refloVars, covVars, floVars, ctxVars, thrVars, pe, emu,
      mutators>>

\* What the threads of Recontex::analyze leave alone.
nonThrVars == <<refloVars, covVars, floVars, ctxVars, strucVars, pe, emu,
      mutators>>

\* ------------------------------------------------------------------------
\* The image (PE, decoder)
\* ------------------------------------------------------------------------

nullptr == 0

Addr == 1..ImageLen

\* pe_.get_end(a): the end of the (single) section.
get_end == ImageLen + 1

\* pe_.get_entry_point()
get_entry_point == 1

\* What the decoder can return: a mnemonic and, for CALL/JMP/Jcc, the
\* destination next_address + imm (kept as the absolute address).
Instructions ==
    [mnemonic : {"OP", "RET"}, dst : {nullptr}]
        \cup [mnemonic : {"JMP", "JCC"}, dst : Addr]
        \cup [mnemonic : {"CALL"}, dst : 1..MaxCallDst]

\* ZydisDecoderDecodeBuffer at address a: the bytes of the image are fixed;
\* an address decoded before decodes to the same instruction again.
\* The images drawn hold at most MaxBranches calls and jumps.
Branches == {a \in DOMAIN image : image[a].mnemonic \in {"CALL", "JMP", "JCC"}}

Decode(a) ==
    IF a \in DOMAIN image THEN {image[a]}
    ELSE IF Cardinality(Branches) < MaxBranches THEN Instructions
    ELSE {i \in Instructions : i.mnemonic \in {"OP", "RET"}}

Remember(a, ins) == IF a \in DOMAIN image THEN image ELSE image @@ (a :> ins)

\* ------------------------------------------------------------------------
\* CFGraph
\* ------------------------------------------------------------------------

\* A multimap is a function from its entries to their multiplicity.
\* Jumps are entries <<dst, src>> (keyed by dst), calls are <<src, dst>>.
EmptyMM == << >>

MMEmplaceN(m, e, n) ==
    IF e \in DOMAIN m THEN [m EXCEPT ![e] = Min(@ + n, MaxDup)]
    ELSE m @@ (e :> Min(n, MaxDup))

MMEmplace(m, e) == MMEmplaceN(m, e, 1)

MMKeys(m) == {e[1] : e \in DOMAIN m}

MMRestrict(m, S) == [e \in S |-> m[e]]

CFGraph(entry_point) ==
    [entry_point   |-> entry_point,
     instructions  |-> {},
     inner_jumps   |-> EmptyMM,
     outer_jumps   |-> EmptyMM,
     unknown_jumps |-> EmptyMM,
     calls         |-> EmptyMM,
     has_ret       |-> FALSE]

NoCFGraph == CFGraph(nullptr)

is_complete(g) ==
    /\ g.instructions # {}
    /\ DOMAIN g.unknown_jumps = {}
    /\ g.has_ret

\* g is the sub-cfgraph, o its outer_cfgraph (always set where this is called).
can_merge_with_outer_cfgraph(g, o) ==
    IF is_complete(g) THEN TRUE
    ELSE IF g.instructions = {} THEN FALSE
    ELSE SetMin(g.instructions) = SetMax(o.instructions) + InstrLen

add_instruction(g, address) ==
    [g EXCEPT !.instructions = @ \cup {address}]

add_jumpN(g, type, dst, src, n) ==
    CASE type = "Inner"   -> [g EXCEPT !.inner_jumps = MMEmplaceN(@, <<dst, src>>, n)]
      [] type = "Outer"   -> [g EXCEPT !.outer_jumps = MMEmplaceN(@, <<dst, src>>, n)]
      [] type = "Unknown" -> [g EXCEPT !.unknown_jumps = MMEmplaceN(@, <<dst, src>>, n)]

add_jump(g, type, dst, src) == add_jumpN(g, type, dst, src, 1)

add_call(g, dst, src) ==
    [g EXCEPT !.calls = MMEmplace(@, <<src, dst>>)]

\* Whether promote_unknown_jump(dst, ...) would return true.
has_unknown_jump(g, dst) == \E e \in DOMAIN g.unknown_jumps : e[1] = dst

\* Adds the entries es of the unknown jumps of u to g under new_type.
RECURSIVE AddPromoted(_, _, _, _)
AddPromoted(g, u, es, new_type) ==
    IF es = {} THEN g
    ELSE LET e == CHOOSE x \in es : TRUE
         IN AddPromoted(add_jumpN(g, new_type, e[1], e[2], u[e]),
                        u, es \ {e}, new_type)

\* Extracts every unknown jump to dst and adds it again as new_type.
promote_unknown_jump(g, dst, new_type) ==
    LET hit  == {e \in DOMAIN g.unknown_jumps : e[1] = dst}
        rest == [g EXCEPT !.unknown_jumps = MMRestrict(@, DOMAIN @ \ hit)]
    IN AddPromoted(rest, g.unknown_jumps, hit, new_type)

get_jump_type(g, dst, src, next) ==
    IF dst = next THEN "Inner"
    ELSE IF Cardinality(g.instructions) = 1 THEN "Outer"
    ELSE IF dst \in g.instructions THEN "Inner"
    ELSE IF dst < g.entry_point THEN "Outer"
    ELSE "Unknown"

is_inside(g, address) ==
    \/ address \in g.instructions
    \/ address \in MMKeys(g.inner_jumps)

\* CFGraph::analyze(address) on g, whose outer_cfgraph is o when has_outer.
\* visit(address) comes first; the result is the changed g, the changed o
\* and the returned next address.
CFGraph_analyze(g, o, has_outer, address, ins) ==
    LET next == address + InstrLen
        g1   == promote_unknown_jump(g, address, "Inner")
        o1   == IF has_outer THEN promote_unknown_jump(o, address, "Inner") ELSE o
    IN CASE ins.mnemonic = "CALL" ->
              [g |-> add_call(g1, ins.dst, address), o |-> o1, next |-> next]
         [] ins.mnemonic = "RET" ->
              LET g2 == [g1 EXCEPT !.has_ret = TRUE]
              IN [g |-> g2, o |-> o1,
                  next |-> IF is_inside(g2, next) THEN next ELSE nullptr]
         [] ins.mnemonic \in {"JMP", "JCC"} ->
              LET type == get_jump_type(g1, ins.dst, address, next)
                  g2   == add_jump(g1, type, ins.dst, address)
              IN IF ins.mnemonic = "JMP"
                 THEN CASE type = "Unknown" ->
                             IF has_unknown_jump(g2, next)
                             THEN [g |-> promote_unknown_jump(g2, next, "Inner"),
                                   o |-> o1, next |-> next]
                             ELSE [g |-> g2, o |-> o1, next |-> nullptr]
                        [] type = "Inner" ->
                             [g |-> g2, o |-> o1,
                              next |-> IF ins.dst >= next THEN next ELSE nullptr]
                        [] type = "Outer" ->
                             [g |-> g2, o |-> o1, next |-> nullptr]
                 ELSE [g |-> g2, o |-> o1, next |-> next]
         [] OTHER -> [g |-> g1, o |-> o1, next |-> next]

\* impl::merge_keeping_src_unique: the entries of other whose source no
\* entry of mine has are moved over, one per source.
merge_keeping_src_unique(mine, other, srcAt) ==
    LET have == {e[srcAt] : e \in DOMAIN mine}
        add  == {e \in DOMAIN other : e[srcAt] \notin have}
    IN mine @@ [e \in add |-> 1]

\* Flow::merge: has_ret is not part of it.
Flow_merge(g, other) ==
    [g EXCEPT
        !.instructions  = @ \cup other.instructions,
        !.inner_jumps   = merge_keeping_src_unique(@, other.inner_jumps, 2),
        !.outer_jumps   = merge_keeping_src_unique(@, other.outer_jumps, 2),
        !.unknown_jumps = merge_keeping_src_unique(@, other.unknown_jumps, 2),
        !.calls         = merge_keeping_src_unique(@, other.calls, 1)]

\* No analysis is running: the control-flow reconstruction is not started.
IdleReflo ==
    /\ image = << >>
    /\ functions_ = << >>
    /\ unanalyzed_functions_ = << >>
    /\ cfgraph = NoCFGraph
    /\ new_cfgraph = NoCFGraph
    /\ next_address = nullptr
    /\ can_merge = FALSE
    /\ unknown_jump_dst = nullptr
    /\ todo = << >>
    /\ pc = "idle"
    /\ pushes = << >>

\* No flo is under OptimalCoverage.
IdleCov ==
    /\ flo = << >>
    /\ cov_pc = "idle"
    /\ nodes_ = << >>
    /\ ends_ = {}
    /\ nodes_order_ = << >>
    /\ loops_ = {}
    /\ useless_edges_ = {}
    /\ dfs_stack = << >>
    /\ path = << >>
    /\ paths_ = << >>
    /\ trails = << >>
    /\ visited_loops = {}
    /\ flo_contexts = << >>
    /\ af_stack = << >>
    /\ assertion = "none"

\* No Context is constructed.
IdleCtx ==
    /\ heap = << >>
    /\ GLOBAL_ID = 0
    /\ writes = 0
    /\ written = 0
    /\ calls = << >>

\* No Struc exists.
IdleStruc ==
    /\ strucs = << >>
    /\ struc_pc = "idle"
    /\ struc_ops = 0
    /\ last_op = << >>

\* No PE is asked to translate an address, emulate is not called on its
\* own, and no threads call into a Struc.
IdlePE == pe = << >> /\ emu = << >> /\ mutators = << >>

\* Recontex::analyze is not called.
IdleThr ==
    /\ max_analyzing_threads_ = 0
    /\ analyzing_threads_count_ = 0
    /\ analyzing_threads_ = << >>
    /\ analyzing_threads_mutex_ = "free"
    /\ cv_waiting = FALSE
    /\ main_pc = "idle"
    /\ flos_left = 0
    /\ joined = 0
    /\ task_pc = << >>
    /\ task_exit = << >>
    /\ decrements = << >>
    /\ notifies = << >>
    /\ contexts_ = {}
    /\ debug_i = 0

\* ------------------------------------------------------------------------
\* Restruc::analyze and create_function, one action per step
\* ------------------------------------------------------------------------

InitReflo ==
    /\ image = << >>
    /\ functions_ = << >>
    /\ unanalyzed_functions_ = << >>
    /\ cfgraph = NoCFGraph
    /\ new_cfgraph = NoCFGraph
    /\ next_address = nullptr
    /\ can_merge = FALSE
    /\ unknown_jump_dst = nullptr
    /\ todo = <<get_entry_point>>
    /\ pc = "call"
    /\ pushes = [a \in Addr |-> 0]

\* A create_function that lacks the guard.
is_known_function_unguarded(entry_point) == FALSE

\* create_function's guard against an entry point that is already known.
is_known_function(entry_point) == entry_point \in DOMAIN functions_

\* create_function(entry_point), up to the first fill_cfgraph.
CreateFunction ==
    /\ pc = "call"
    /\ todo # << >>
    /\ LET entry_point == Head(todo)
       IN IF is_known_function(entry_point)
          THEN /\ todo' = Tail(todo)
               /\ UNCHANGED <<cfgraph, next_address, pc>>
          ELSE /\ cfgraph' = CFGraph(entry_point)
               /\ next_address' = entry_point
               /\ pc' = "fill"
               /\ UNCHANGED todo
    /\ UNCHANGED <<image, functions_, unanalyzed_functions_, new_cfgraph,
                   can_merge, unknown_jump_dst, pushes>>
    /\ UNCHANGED nonRefloVars

\* One iteration of fill_cfgraph's loop.
FillStep ==
    /\ pc = "fill"
    /\ next_address # nullptr
    /\ next_address < get_end
    /\ \E ins \in Decode(next_address) :
          LET r == CFGraph_analyze(add_instruction(cfgraph, next_address),
                                   NoCFGraph, FALSE, next_address, ins)
          IN /\ image' = Remember(next_address, ins)
             /\ cfgraph' = r.g
             /\ next_address' = r.next
    /\ UNCHANGED <<functions_, unanalyzed_functions_, new_cfgraph, can_merge,
                   unknown_jump_dst, todo, pc, pushes>>
    /\ UNCHANGED nonRefloVars

\* fill_cfgraph returned and the cfgraph is complete: the function is
\* stored and queued, create_function returns.
StoreFunction ==
    /\ pc = "fill"
    /\ next_address = nullptr \/ next_address >= get_end
    /\ is_complete(cfgraph)
    /\ functions_' = IF cfgraph.entry_point \in DOMAIN functions_
                     THEN functions_
                     ELSE functions_ @@ (cfgraph.entry_point :> cfgraph)
    /\ unanalyzed_functions_' = Append(unanalyzed_functions_, cfgraph.entry_point)
    /\ pushes' = [pushes EXCEPT ![cfgraph.entry_point] = Min(@ + 1, MaxDup)]
    /\ todo' = Tail(todo)
    /\ pc' = "call"
    /\ UNCHANGED <<image, cfgraph, new_cfgraph, next_address, can_merge,
                   unknown_jump_dst>>
    /\ UNCHANGED nonRefloVars

\* Where fill_cfgraph starts when the cfgraph already holds instructions.
fill_start(g) ==
    IF g.instructions = {} THEN g.entry_point ELSE SetMax(g.instructions)

\* fill_cfgraph returned and the cfgraph is not complete:
\* resolve_incomplete_cfgraph is entered; it returns at once when there is
\* nothing to resolve, and create_function's loop fills again.
ResolveEnter ==
    /\ pc = "fill"
    /\ next_address = nullptr \/ next_address >= get_end
    /\ ~is_complete(cfgraph)
    /\ IF cfgraph.instructions = {} \/ DOMAIN cfgraph.unknown_jumps = {}
       THEN /\ pc' = "fill"
            /\ next_address' = fill_start(cfgraph)
       ELSE /\ pc' = "resolve"
            /\ UNCHANGED next_address
    /\ UNCHANGED <<image, functions_, unanalyzed_functions_, cfgraph,
                   new_cfgraph, can_merge, unknown_jump_dst, todo, pushes>>
    /\ UNCHANGED nonRefloVars

\* The head of resolve_incomplete_cfgraph's outer while loop.
ResolveNext ==
    /\ pc = "resolve"
    /\ IF DOMAIN cfgraph.unknown_jumps = {}
       THEN /\ pc' = "fill"
            /\ next_address' = fill_start(cfgraph)
            /\ UNCHANGED <<new_cfgraph, can_merge, unknown_jump_dst>>
       ELSE LET dst == SetMin(MMKeys(cfgraph.unknown_jumps))
            IN /\ unknown_jump_dst' = dst
               /\ new_cfgraph' = CFGraph(dst)
               /\ next_address' = dst
               /\ can_merge' = FALSE
               /\ pc' = "sub"
    /\ UNCHANGED <<image, functions_, unanalyzed_functions_, cfgraph, todo,
                   pushes>>
    /\ UNCHANGED nonRefloVars

\* One iteration of the inner while (!can_merge) loop.
SubStep ==
    /\ pc = "sub"
    /\ ~can_merge
    /\ next_address # nullptr
    /\ next_address < get_end
    /\ \E ins \in Decode(next_address) :
          LET r == CFGraph_analyze(add_instruction(new_cfgraph, next_address),
                                   cfgraph, TRUE, next_address, ins)
          IN /\ image' = Remember(next_address, ins)
             /\ new_cfgraph' = r.g
             /\ cfgraph' = r.o
             /\ next_address' = r.next
             /\ can_merge' = can_merge_with_outer_cfgraph(r.g, r.o)
    /\ UNCHANGED <<functions_, unanalyzed_functions_, unknown_jump_dst, todo,
                   pc, pushes>>
    /\ UNCHANGED nonRefloVars

\* After the inner loop: merge and leave, or promote the jump to Outer and
\* go on with the next unknown jump.
SubEnd ==
    /\ pc = "sub"
    /\ can_merge \/ next_address = nullptr \/ next_address >= get_end
    /\ IF can_merge
       THEN /\ cfgraph' = Flow_merge(cfgraph, new_cfgraph)
            /\ pc' = "fill"
            /\ next_address' = fill_start(Flow_merge(cfgraph, new_cfgraph))
       ELSE /\ cfgraph' = promote_unknown_jump(cfgraph, unknown_jump_dst, "Outer")
            /\ pc' = "resolve"
            /\ UNCHANGED next_address
    /\ UNCHANGED <<image, functions_, unanalyzed_functions_, new_cfgraph,
                   can_merge, unknown_jump_dst, todo, pushes>>
    /\ UNCHANGED nonRefloVars

\* The destinations analyze() hands to create_function for one function:
\* one per call source in source order, then one per outer-jump destination.
call_targets(g) ==
    LET srcs == SortedSeq({e[1] : e \in DOMAIN g.calls})
    IN [i \in 1..Len(srcs) |->
          (CHOOSE e \in DOMAIN g.calls : e[1] = srcs[i])[2]]

outer_jump_targets(g) == SortedSeq(MMKeys(g.outer_jumps))

\* analyze(): pop the next function and walk its calls and outer jumps.
PopFunction ==
    /\ pc = "call"
    /\ todo = << >>
    /\ unanalyzed_functions_ # << >>
    /\ LET function == functions_[Head(unanalyzed_functions_)]
       IN todo' = call_targets(function) \o outer_jump_targets(function)
    /\ unanalyzed_functions_' = Tail(unanalyzed_functions_)
    /\ UNCHANGED <<image, functions_, cfgraph, new_cfgraph, next_address,
                   can_merge, unknown_jump_dst, pc, pushes>>
    /\ UNCHANGED nonRefloVars

\* analyze() returns: the worklist is empty.
Finish ==
    /\ pc = "call"
    /\ todo = << >>
    /\ unanalyzed_functions_ = << >>
    /\ pc' = "done"
    /\ UNCHANGED <<image, functions_, unanalyzed_functions_, cfgraph,
                   new_cfgraph, next_address, can_merge, unknown_jump_dst,
                   todo, pushes>>
    /\ UNCHANGED nonRefloVars

NextReflo ==
    \/ CreateFunction
    \/ FillStep
    \/ StoreFunction
    \/ ResolveEnter
    \/ ResolveNext
    \/ SubStep
    \/ SubEnd
    \/ PopFunction
    \/ Finish

InitSpecReflo ==
    InitReflo /\ IdleCov /\ IdleCtx /\ IdleStruc /\ IdleThr /\ IdlePE

SpecReflo == InitSpecReflo /\ [][NextReflo]_vars

\* analyze() is one sequential thread: it always takes its next step.
FairSpecReflo == SpecReflo /\ WF_vars(NextReflo)


\* ------------------------------------------------------------------------
\* Flo: the disassembly OptimalCoverage and Recontex work on
\* ------------------------------------------------------------------------

\* A flo is its disassembly, one instruction at each of the addresses
\* 1..Len(flo); its entry point is the first address.  A jump holds its
\* destination: an address of the flo, the address after the flo (outside)
\* or nullptr, when the operand is no immediate.
FloAddr == 1..MaxFloLen

FloInstructions ==
    [mnemonic : {"OP", "RET"}, dst : {nullptr}]
        \cup [mnemonic : {"JCC"}, dst : 1..(MaxFloLen + 1)]
        \cup [mnemonic : {"JMP"}, dst : 0..(MaxFloLen + 1)]

Flo_is_any_jump(ins) == ins.mnemonic \in {"JMP", "JCC"}

Flo_is_conditional_jump(ins) == ins.mnemonic = "JCC"

Flo_is_inside(f, dst) == dst \in 1..Len(f)

\* The flos drawn: MaxFloLen instructions, at most MaxFloJumps of them jumps.
Flos ==
    {f \in [FloAddr -> FloInstructions] :
        Cardinality({a \in FloAddr : Flo_is_any_jump(f[a])}) <= MaxFloJumps}

\* ------------------------------------------------------------------------
\* Recontex::OptimalCoverage: nodes, order, loops, useless edges
\* ------------------------------------------------------------------------

Branch(source, branch, type) ==
    [source |-> source, branch |-> branch, type |-> type]

Node(source, branches) == [source |-> source, branches |-> branches]

Edge(src, dst) == <<src, dst>>

\* std::map::lower_bound on the keys K: the first key >= a, nullptr for end().
lower_bound(K, a) ==
    IF \E k \in K : k >= a THEN SetMin({k \in K : k >= a}) ELSE nullptr

\* The inner while loop of build_nodes, from instruction j on: the
\* conditional jumps to the inside are collected.  stop is "end" (the
\* disassembly ended), "fail" (no destination) or "break".
RECURSIVE collect_conditionals(_, _, _, _)
collect_conditionals(f, j, branches, next) ==
    IF j > Len(f) THEN [j |-> j, branches |-> branches, next |-> next, ok |-> TRUE]
    ELSE IF ~Flo_is_conditional_jump(f[j])
    THEN [j |-> j, branches |-> branches, next |-> next, ok |-> TRUE]
    ELSE IF f[j].dst = nullptr
    THEN [j |-> j, branches |-> branches, next |-> next, ok |-> FALSE]
    ELSE IF ~Flo_is_inside(f, f[j].dst)
    THEN [j |-> j, branches |-> branches, next |-> next, ok |-> TRUE]
    ELSE collect_conditionals(f, j + InstrLen,
             Append(branches, Branch(j, f[j].dst, "Conditional")),
             j + InstrLen)

\* The head branch build_nodes puts in front of a group that stopped at j.
head_branch(f, c) ==
    IF c.j > Len(f) THEN << >>
    ELSE IF f[c.j].mnemonic = "JMP"
    THEN IF Flo_is_inside(f, f[c.j].dst)
         THEN <<Branch(c.j, f[c.j].dst, "Unconditional")>>
         ELSE << >>
    ELSE IF c.next # nullptr
    THEN <<Branch(c.j - InstrLen, c.next, "Next")>>
    ELSE << >>

\* build_nodes from instruction i on: [ok, nodes, ends].
RECURSIVE build_nodes_from(_, _, _, _)
build_nodes_from(f, i, nodes, ends) ==
    IF i > Len(f) THEN [ok |-> TRUE, nodes |-> nodes, ends |-> ends]
    ELSE IF Flo_is_any_jump(f[i])
    THEN IF f[i].dst = nullptr
         THEN [ok |-> FALSE, nodes |-> nodes, ends |-> ends]
         ELSE IF Flo_is_inside(f, f[i].dst)
         THEN LET c == collect_conditionals(f, i, << >>, nullptr)
                  jmp_fails == /\ c.j <= Len(f)
                               /\ f[c.j].mnemonic = "JMP"
                               /\ f[c.j].dst = nullptr
                  branches == head_branch(f, c) \o c.branches
                  nodes1 == IF branches # << >>
                            THEN nodes @@ (i :> Node(i, branches))
                            ELSE nodes
              IN IF ~c.ok \/ jmp_fails
                 THEN [ok |-> FALSE, nodes |-> nodes, ends |-> ends]
                 ELSE build_nodes_from(f, c.j + InstrLen, nodes1, ends)
         ELSE build_nodes_from(f, i + InstrLen,
                               nodes @@ (i :> Node(i, << >>)), ends \cup {i})
    ELSE IF f[i].mnemonic = "RET"
    THEN build_nodes_from(f, i + InstrLen,
                          nodes @@ (i :> Node(i, << >>)), ends \cup {i})
    ELSE build_nodes_from(f, i + InstrLen, nodes, ends)

build_nodes(f) == build_nodes_from(f, 1, << >>, {})

normalize_branch(K, b) ==
    IF b.branch = nullptr THEN b
    ELSE IF lower_bound(K, b.branch) # nullptr
    THEN [b EXCEPT !.branch = lower_bound(K, b.branch)]
    ELSE b

normalize_nodes(nodes) ==
    [a \in DOMAIN nodes |->
        [nodes[a] EXCEPT !.branches =
            [k \in 1..Len(@) |-> normalize_branch(DOMAIN nodes, @[k])]]]

\* top_sort's dfs(v) on the state st = [visited, top_sort]; the branches
\* of a node are walked from index k on.
RECURSIVE top_sort_dfs(_, _, _)
RECURSIVE top_sort_branches(_, _, _, _)
top_sort_dfs(nodes, v0, st) ==
    LET it == lower_bound(DOMAIN nodes, v0)
        v  == IF it # nullptr THEN it ELSE v0
    IN IF v \in st.visited THEN st
       ELSE LET st1 == [st EXCEPT !.visited = @ \cup {v}]
                st2 == IF it # nullptr
                       THEN top_sort_branches(nodes, nodes[it].branches, 1, st1)
                       ELSE st1
            IN [st2 EXCEPT !.top_sort = Append(@, v)]

top_sort_branches(nodes, branches, k, st) ==
    IF k > Len(branches) THEN st
    ELSE top_sort_branches(nodes, branches, k + 1,
                           top_sort_dfs(nodes, branches[k].branch, st))

\* nodes_order_: address -> index in the reversed post-order.
top_sort(nodes, entry_point) ==
    IF DOMAIN nodes = {} THEN << >>
    ELSE LET ts == top_sort_dfs(nodes, entry_point,
                                [visited |-> {}, top_sort |-> << >>]).top_sort
         IN [a \in {ts[i] : i \in 1..Len(ts)} |->
                Len(ts) - (CHOOSE i \in 1..Len(ts) : ts[i] = a)]

\* find_loops reads nodes_order_.at() for every node that has a branch and
\* for the branch's destination: it throws when one of them has no order.
find_loops_throws(nodes, order) ==
    \E a \in DOMAIN nodes : \E k \in 1..Len(nodes[a].branches) :
        \/ a \notin DOMAIN order
        \/ nodes[a].branches[k].branch \notin DOMAIN order

is_loop(order, src, dst) == order[dst] <= order[src]

find_loops(nodes, order) ==
    {Edge(a, nodes[a].branches[k].branch) :
        <<a, k>> \in {ak \in (DOMAIN nodes) \X (1..MaxFloLen) :
                        /\ ak[2] <= Len(nodes[ak[1]].branches)
                        /\ is_loop(order, ak[1],
                                   nodes[ak[1]].branches[ak[2]].branch)}}

\* is_reachable's dfs(v), with the branches walked from index k on; the
\* state is [found, visited].
RECURSIVE reach_dfs(_, _, _, _, _, _, _)
RECURSIVE reach_branches(_, _, _, _, _, _, _, _)
reach_dfs(nodes, order, loops, blocked, end, v, st) ==
    IF v \notin DOMAIN order \/ order[v] > order[end] THEN st
    ELSE LET st1 == [st EXCEPT !.visited = @ \cup {v}]
         IN IF v \in DOMAIN nodes
            THEN reach_branches(nodes, order, loops, blocked, end, v, 1, st1)
            ELSE st1

reach_branches(nodes, order, loops, blocked, end, v, k, st) ==
    IF st.found \/ k > Len(nodes[v].branches) THEN st
    ELSE LET edge == Edge(v, nodes[v].branches[k].branch)
             st1  == IF edge # blocked /\ edge \notin loops
                     THEN IF edge[2] = end
                          THEN [st EXCEPT !.found = TRUE]
                          ELSE IF edge[2] \notin st.visited
                          THEN reach_dfs(nodes, order, loops, blocked, end,
                                         edge[2], st)
                          ELSE st
                     ELSE st
         IN reach_branches(nodes, order, loops, blocked, end, v, k + 1, st1)

\* is_reachable with no edge blocked.
is_reachable_unblocked(nodes, order, loops, blocked, start, end) ==
    reach_dfs(nodes, order, loops, Edge(nullptr, nullptr), end, start,
              [found |-> FALSE, visited |-> {}]).found

is_reachable(nodes, order, loops, blocked, start, end) ==
    reach_dfs(nodes, order, loops, blocked, end, start,
              [found |-> FALSE, visited |-> {}]).found

find_useless_edges(nodes, order, loops) ==
    {e \in {Edge(a, nodes[a].branches[k].branch) :
              <<a, k>> \in {ak \in (DOMAIN nodes) \X (1..MaxFloLen) :
                              ak[2] <= Len(nodes[ak[1]].branches)}} :
        is_reachable(nodes, order, loops, e, e[1], e[2])}

\* ------------------------------------------------------------------------
\* OptimalCoverage::analyze and build_paths, one action per step
\* ------------------------------------------------------------------------

all_edges(nodes) ==
    {Edge(a, nodes[a].branches[k].branch) :
        <<a, k>> \in {ak \in (DOMAIN nodes) \X (1..MaxFloLen) :
                        ak[2] <= Len(nodes[ak[1]].branches)}}

InitCov ==
    /\ flo \in Flos
    /\ cov_pc = "analyze"
    /\ nodes_ = << >>
    /\ ends_ = {}
    /\ nodes_order_ = << >>
    /\ loops_ = {}
    /\ useless_edges_ = {}
    /\ dfs_stack = << >>
    /\ path = << >>
    /\ paths_ = << >>
    /\ trails = << >>
    /\ visited_loops = {}
    /\ flo_contexts = << >>
    /\ af_stack = << >>
    /\ assertion = "none"

\* dfs's list of branches: the branches after the head, then the head.
\* branch_index(n, k) is the place in node.branches of the k-th visited.
branch_index(n, k) == IF k < n THEN k + 1 ELSE 1

\* The branch the activation fr of dfs is at.
frame_branch(fr) ==
    nodes_[fr.v].branches[branch_index(Len(nodes_[fr.v].branches), fr.k)]

frame_edge(fr) == Edge(nodes_[fr.v].source, frame_branch(fr).branch)

\* dfs(v) snapshots the path and returns at once.  The variant without
\* the test of ends_ is the dfs that only stops where no node is.
dfs_is_terminal_no_ends(nodes, ends, v) == v \notin DOMAIN nodes

dfs_is_terminal(nodes, ends, v) == v \in ends \/ v \notin DOMAIN nodes

\* A loop edge is descended through unless it is on the stack already.
\* The variant descends through it every time.
loop_is_on_stack_never(visited, edge) == FALSE

loop_is_on_stack(visited, edge) == edge \in visited

NewFrame(v) == [v |-> v, k |-> 1, nodes_added |-> 0, loop |-> FALSE]

\* The branches the activations in stack are at.
Trail(stack) ==
    {<<stack[i].v, branch_index(Len(nodes_[stack[i].v].branches), stack[i].k)>> :
        i \in 1..Len(stack)}

\* analyze(): build_nodes .. find_useless_edges, and build_paths up to the
\* first call of dfs.
Analyze ==
    /\ cov_pc = "analyze"
    /\ LET built == build_nodes(flo)
       IN /\ ends_' = built.ends
          /\ nodes_' = IF built.ok THEN normalize_nodes(built.nodes)
                                   ELSE built.nodes
          /\ nodes_order_' = IF built.ok THEN top_sort(nodes_', 1) ELSE << >>
          /\ IF ~built.ok
             THEN /\ cov_pc' = "failed"
                  /\ UNCHANGED <<loops_, useless_edges_, dfs_stack, paths_, trails>>
             ELSE IF find_loops_throws(nodes_', nodes_order_')
             THEN /\ cov_pc' = "threw"
                  /\ UNCHANGED <<loops_, useless_edges_, dfs_stack, paths_, trails>>
             ELSE /\ loops_' = find_loops(nodes_', nodes_order_')
                  /\ useless_edges_' =
                        find_useless_edges(nodes_', nodes_order_', loops_')
                  /\ IF \/ DOMAIN nodes_' = {}
                        \/ dfs_is_terminal(nodes_', ends_',
                                           lower_bound(DOMAIN nodes_', 1))
                     THEN /\ paths_' = << << >> >>
                          /\ trails' = << {} >>
                          /\ dfs_stack' = << >>
                          /\ cov_pc' = "done"
                     ELSE /\ dfs_stack' =
                                <<NewFrame(lower_bound(DOMAIN nodes_', 1))>>
                          /\ cov_pc' = "dfs"
                          /\ UNCHANGED <<paths_, trails>>
    /\ UNCHANGED <<flo, path, visited_loops>>
    /\ UNCHANGED nonCovVars

\* The path after dfs has added the branch b of the activation fr.
path_with_branch(p, fr, b, is_head) ==
    IF ~is_head \/ fr.nodes_added = 0
    THEN Append(p, [jump |-> b.source,
                    take |-> b.type \in {"Conditional", "Unconditional"}])
    ELSE LET p1 == [p EXCEPT ![Len(p)].take = FALSE]
         IN IF b.type = "Unconditional"
            THEN Append(p1, [jump |-> b.source, take |-> TRUE])
            ELSE p1

nodes_added_with_branch(fr, b, is_head) ==
    IF ~is_head \/ fr.nodes_added = 0 \/ b.type = "Unconditional"
    THEN fr.nodes_added + 1
    ELSE fr.nodes_added

\* One turn of dfs's loop over the branches of its node.
VisitBranch ==
    /\ cov_pc = "dfs"
    /\ LET top == Len(dfs_stack)
           fr  == dfs_stack[top]
           n   == Len(nodes_[fr.v].branches)
       IN /\ fr.k <= n
          /\ LET b    == frame_branch(fr)
                 edge == frame_edge(fr)
                 p1   == path_with_branch(path, fr, b, fr.k = n)
                 fr1  == [fr EXCEPT !.nodes_added =
                                       nodes_added_with_branch(fr, b, fr.k = n)]
                 loop == edge \in loops_
             IN /\ path' = p1
                /\ IF loop /\ loop_is_on_stack(visited_loops, edge)
                   THEN /\ dfs_stack' = [dfs_stack EXCEPT ![top] =
                                            [fr1 EXCEPT !.k = @ + 1]]
                        /\ UNCHANGED <<paths_, trails, visited_loops>>
                   ELSE IF edge \in useless_edges_
                   THEN /\ dfs_stack' = [dfs_stack EXCEPT ![top] =
                                            [fr1 EXCEPT !.k = @ + 1]]
                        /\ UNCHANGED <<paths_, trails, visited_loops>>
                   ELSE IF dfs_is_terminal(nodes_, ends_, edge[2])
                   THEN /\ paths_' = Append(paths_, p1)
                        /\ trails' = Append(trails, Trail(dfs_stack))
                        /\ dfs_stack' = [dfs_stack EXCEPT ![top] =
                                            [fr1 EXCEPT !.k = @ + 1]]
                        /\ UNCHANGED visited_loops
                   ELSE /\ dfs_stack' =
                              Append([dfs_stack EXCEPT ![top] =
                                         [fr1 EXCEPT !.loop = loop]],
                                     NewFrame(edge[2]))
                        /\ visited_loops' =
                              IF loop THEN visited_loops \cup {edge}
                                      ELSE visited_loops
                        /\ UNCHANGED <<paths_, trails>>
    /\ UNCHANGED <<flo, cov_pc, nodes_, ends_, nodes_order_, loops_,
                   useless_edges_>>
    /\ UNCHANGED nonCovVars

\* dfs returns: its path elements are erased, and its caller goes on.
Return ==
    /\ cov_pc = "dfs"
    /\ LET top == Len(dfs_stack)
           fr  == dfs_stack[top]
       IN /\ fr.k > Len(nodes_[fr.v].branches)
          /\ path' = SubSeq(path, 1, Len(path) - fr.nodes_added)
          /\ IF top = 1
             THEN /\ dfs_stack' = << >>
                  /\ cov_pc' = "done"
                  /\ UNCHANGED visited_loops
             ELSE LET caller == dfs_stack[top - 1]
                  IN /\ dfs_stack' =
                           [SubSeq(dfs_stack, 1, top - 1) EXCEPT ![top - 1] =
                               [caller EXCEPT !.k = @ + 1, !.loop = FALSE]]
                     /\ visited_loops' =
                           IF caller.loop
                           THEN visited_loops \ {frame_edge(caller)}
                           ELSE visited_loops
                     /\ UNCHANGED cov_pc
    /\ UNCHANGED <<flo, nodes_, ends_, nodes_order_, loops_, useless_edges_,
                   paths_, trails>>
    /\ UNCHANGED nonCovVars

\* ------------------------------------------------------------------------
\* Context: hash, registers and memory chained to the parent
\* ------------------------------------------------------------------------

\* virt::Value: a concrete value or the id of a symbol, and the address of
\* the instruction it comes from.
Values == [symbolic : BOOLEAN, v : 0..MaxValue, source : 1..MaxSource]

make_value(source, v) == [symbolic |-> FALSE, v |-> v, source |-> source]

make_symbolic_value(source, id) == [symbolic |-> TRUE, v |-> id, source |-> source]

\* virt::Registers::register_map: the tracked registers.  Register 0 is
\* one that is not tracked.
register_map == 1..MaxRegs

is_tracked(reg) == reg \in register_map

MemoryAddresses == 1..MaxMemory

\* Exclusive or of two naturals, bit by bit.
RECURSIVE Xor(_, _)
Xor(a, b) ==
    IF a = 0 THEN b
    ELSE IF b = 0 THEN a
    ELSE 2 * Xor(a \div 2, b \div 2) + ((a + b) % 2)

\* utils::hash_combine(seed, v): v is folded into seed by exclusive or, so
\* that folding the same v twice takes it out again.
hash_combine(seed, v) == Xor(seed, v)

\* Registers::get and Memory::get walk the chain of parents; the result is
\* an optional, here the empty set or a set of one value.
RECURSIVE Registers_get(_, _, _)
Registers_get(h, c, reg) ==
    IF reg \in DOMAIN c.registers_ THEN {c.registers_[reg]}
    ELSE IF c.parent = nullptr THEN {}
    ELSE Registers_get(h, h[c.parent], reg)

RECURSIVE Memory_get(_, _, _)
Memory_get(h, c, address) ==
    IF address \in DOMAIN c.memory_ THEN {c.memory_[address]}
    ELSE IF c.parent = nullptr THEN {}
    ELSE Memory_get(h, h[c.parent], address)

\* Registers::set and Memory::set write the map of the object itself.
Map_set(m, k, value) == [x \in DOMAIN m \cup {k} |-> IF x = k THEN value ELSE m[x]]

get_register(h, c, reg) == Registers_get(h, c, reg)

get_memory(h, c, address) == Memory_get(h, c, address)

\* The hash after set_register(reg, value) on a context whose register reg
\* reads old.  The variant does not take the old value out of the hash.
set_register_hash_keeping_old(hash_, old, reg, value) ==
    hash_combine(hash_combine(hash_, value.v), value.source)

set_register_hash(hash_, old, reg, value) ==
    LET h1 == IF old # {}
              THEN LET o == CHOOSE o \in old : TRUE
                   IN hash_combine(hash_combine(hash_, o.source), o.v)
              ELSE hash_combine(hash_, reg)
    IN hash_combine(hash_combine(h1, value.v), value.source)

\* c.set_register(reg, value) on the context number c: the heap after it.
set_register(h, c, reg, value) ==
    IF ~is_tracked(reg) THEN h
    ELSE [h EXCEPT ![c].hash_ = set_register_hash(@, get_register(h, h[c], reg),
                                                  reg, value),
                   ![c].registers_ = Map_set(@, reg, value)]

\* A set_memory that writes the memory of the parent, where there is one.
set_memory_of_parent(h, c, address, value) ==
    IF h[c].parent = nullptr
    THEN [h EXCEPT ![c].memory_ = Map_set(@, address, value)]
    ELSE [h EXCEPT ![h[c].parent].memory_ = Map_set(@, address, value)]

\* A set_memory that folds the value into the hash as set_register does.
set_memory_hashing(h, c, address, value) ==
    [h EXCEPT ![c].memory_ = Map_set(@, address, value),
              ![c].hash_ = hash_combine(hash_combine(@, value.v), value.source)]

\* c.set_memory(address, value): the heap after it.
set_memory(h, c, address, value) ==
    [h EXCEPT ![c].memory_ = Map_set(@, address, value)]

RECURSIVE set_all_registers_symbolic(_, _, _, _, _)
set_all_registers_symbolic(h, c, reg, source, id) ==
    IF reg > MaxRegs THEN h
    ELSE set_all_registers_symbolic(
             set_register(h, c, reg, make_symbolic_value(source, id)),
             c, reg + 1, source, id)

\* Context::Context(Address source), with the id the constructor draws:
\* the heap with the new context in it.
Context_root(h, id_, source, symbol) ==
    set_all_registers_symbolic(
        h @@ (id_ :> [hash_ |-> 0, id_ |-> id_, caller_id_ |-> 0,
                      parent |-> nullptr,
                      registers_ |-> << >>, memory_ |-> << >>]),
        id_, 1, source, symbol)

\* Context::Context(Context const *parent, ParentRole parent_role).
Context_child(parent, id_, parent_is_caller) ==
    [hash_ |-> parent.hash_, id_ |-> id_,
     caller_id_ |-> IF parent_is_caller THEN parent.id_ ELSE parent.caller_id_,
     parent |-> parent.id_, registers_ |-> << >>, memory_ |-> << >>]

make_child(c, id_, parent_is_caller) == Context_child(c, id_, parent_is_caller)

has_child(h, id) == \E k \in DOMAIN h : h[k].parent = id

InitCtx ==
    /\ heap = << >>
    /\ GLOBAL_ID = 0
    /\ writes = 0
    /\ written = 0
    /\ calls = << >>

\* Context c(source).
NewContext ==
    /\ GLOBAL_ID < MaxContexts
    /\ \E source \in 1..MaxSource, symbol \in 0..MaxValue :
          heap' = Context_root(heap, GLOBAL_ID + 1, source, symbol)
    /\ GLOBAL_ID' = GLOBAL_ID + 1
    /\ calls' = calls @@ ((GLOBAL_ID + 1) :> 0)
    /\ written' = 0
    /\ UNCHANGED writes
    /\ UNCHANGED nonCtxVars

\* c.make_child(parent_role).
MakeChild ==
    /\ GLOBAL_ID < MaxContexts
    /\ \E p \in DOMAIN heap, parent_is_caller \in BOOLEAN :
          heap' = heap @@ ((GLOBAL_ID + 1) :>
                              make_child(heap[p], GLOBAL_ID + 1, parent_is_caller))
    /\ GLOBAL_ID' = GLOBAL_ID + 1
    /\ calls' = calls @@ ((GLOBAL_ID + 1) :> 0)
    /\ written' = 0
    /\ UNCHANGED writes
    /\ UNCHANGED nonCtxVars

\* c.set_register(reg, value), on a context no child has been made of: the
\* contexts emulate() writes are the children propagate_contexts has just made.
SetRegister ==
    /\ writes < MaxWrites
    /\ \E c \in DOMAIN heap, reg \in {0} \cup register_map, value \in Values :
          /\ ~has_child(heap, c)
          /\ heap' = set_register(heap, c, reg, value)
          /\ written' = c
          /\ calls' = [calls EXCEPT ![c] = @ + 1]
    /\ writes' = writes + 1
    /\ UNCHANGED GLOBAL_ID
    /\ UNCHANGED nonCtxVars

\* c.set_memory(address, value).
SetMemory ==
    /\ writes < MaxWrites
    /\ \E c \in DOMAIN heap, address \in MemoryAddresses, value \in Values :
          /\ ~has_child(heap, c)
          /\ heap' = set_memory(heap, c, address, value)
          /\ written' = c
    /\ writes' = writes + 1
    /\ UNCHANGED <<GLOBAL_ID, calls>>
    /\ UNCHANGED nonCtxVars

NextCtx ==
    \/ NewContext
    \/ MakeChild
    \/ SetRegister
    \/ SetMemory

InitSpecCtx ==
    IdleReflo /\ IdleCov /\ InitCtx /\ IdleStruc /\ IdleThr /\ IdlePE

SpecCtx == InitSpecCtx /\ [][NextCtx]_vars

\* The children of one context, as propagate_contexts makes them: the
\* context 1 and MaxContexts children of it, none written yet.
RECURSIVE make_children(_, _)
make_children(h, n) ==
    IF n = 0 THEN h
    ELSE LET made == make_children(h, n - 1)
         IN  made @@ ((n + 1) :> make_child(made[1], n + 1, FALSE))

InitSiblings ==
    /\ \E source \in 1..MaxSource, symbol \in 0..MaxValue :
          heap = make_children(Context_root(<< >>, 1, source, symbol),
                               MaxContexts)
    /\ GLOBAL_ID = MaxContexts + 1
    /\ writes = 0
    /\ written = 0
    /\ calls = [c \in 1..(MaxContexts + 1) |-> 0]

\* emulate() writes the children.
NextSiblings ==
    \/ SetRegister
    \/ SetMemory

InitSpecSiblings ==
    IdleReflo /\ IdleCov /\ InitSiblings /\ IdleStruc /\ IdleThr /\ IdlePE

SpecSiblings == InitSpecSiblings /\ [][NextSiblings]_vars

\* ------------------------------------------------------------------------
\* Recontex::analyze_flo, one action per turn of its loop
\* ------------------------------------------------------------------------

\* The registers and values of the contexts of a flo.  RIP is no tracked
\* register; the stack pointer starts at stack_top and RET pops a slot.
RSP == 1

RIP == 0

stack_top == 0

stack_slot == 8

Flo_get_instruction(f, address) ==
    IF address \in 1..Len(f) THEN {f[address]} ELSE {}

\* The end analyze_flo computes: last instruction's address plus its length.
Flo_end(f) == Len(f) + InstrLen

AnalyzePath(p) == [path |-> p, current |-> 1]

optimal_paths_to_analyze_paths(paths) ==
    [i \in 1..Len(paths) |-> AnalyzePath(paths[i])]

at_end(ap) == ap.current > Len(ap.path)

\* path.current->take; what is read at the end of a path is garbage.
current_take(ap, garbage) ==
    IF at_end(ap) THEN garbage ELSE ap.path[ap.current].take

RECURSIVE SelectSeq2(_, _, _, _)
SelectSeq2(paths, i, garbage, take) ==
    IF i > Len(paths) THEN << >>
    ELSE (IF current_take(paths[i], garbage) = take THEN <<paths[i]>> ELSE << >>)
             \o SelectSeq2(paths, i + 1, garbage, take)

\* split_analyze_paths with std::partition in place of std::remove_if:
\* [skip, paths], the paths that do not take the jump and those that do.
split_analyze_paths_partitioned(paths, garbage) ==
    [skip  |-> SelectSeq2(paths, 1, garbage, FALSE),
     paths |-> SelectSeq2(paths, 1, garbage, TRUE)]

\* split_analyze_paths: [skip, paths].  std::remove_if moves the paths
\* that take the jump to the front, in order, and returns the end of them;
\* it writes nothing from there on, and an AnalyzePath is a pair of
\* iterators, so the elements from there on are what the vector held at
\* these positions before.  They are copied to skip_jump_paths and erased.
split_analyze_paths(paths, garbage) ==
    LET kept == SelectSeq2(paths, 1, garbage, TRUE)
    IN  [skip  |-> SubSeq(paths, Len(kept) + 1, Len(paths)),
         paths |-> kept]

\* same_analyze_path, false as well when its own assert is.
same_analyze_path(paths) ==
    \A i \in 1..Len(paths) :
       IF at_end(paths[i]) THEN at_end(paths[1])
       ELSE /\ ~at_end(paths[1])
            /\ paths[i].path[paths[i].current].jump
                  = paths[1].path[paths[1].current].jump

\* The first assert of checks (pairs of its text and its value) that is
\* false, once one was false: the history keeps the first.
first_false(was, checks) ==
    IF was # "none" THEN was
    ELSE IF \E i \in 1..Len(checks) : ~checks[i][2]
    THEN checks[CHOOSE i \in 1..Len(checks) :
                   /\ ~checks[i][2]
                   /\ \A j \in 1..(i - 1) : checks[j][2]][1]
    ELSE "none"

advance_analyze_paths(paths) ==
    [i \in 1..Len(paths) |->
        IF at_end(paths[i]) THEN paths[i]
        ELSE [paths[i] EXCEPT !.current = @ + 1]]

\* flo_contexts' range of an address.
equal_range(fc, address) ==
    IF address \in DOMAIN fc THEN fc[address] ELSE << >>

\* std::upper_bound on the hashes of the range: the place before the first
\* context whose hash is greater.
upper_bound(h, range, hash) ==
    IF \E i \in 1..Len(range) : hash < h[range[i]].hash_
    THEN SetMin({i \in 1..Len(range) : hash < h[range[i]].hash_})
    ELSE Len(range) + 1

\* emplace_context: the context is emplaced at the hint.
emplace_context(fc, h, address, c) ==
    LET range == equal_range(fc, address)
        hint  == upper_bound(h, range, h[c].hash_)
        new   == SubSeq(range, 1, hint - 1) \o <<c>>
                     \o SubSeq(range, hint, Len(range))
    IN [a \in DOMAIN fc \cup {address} |-> IF a = address THEN new ELSE fc[a]]

emulate_instruction_ret(h, c, address) ==
    LET rsp == get_register(h, h[c], RSP)
    IN IF rsp # {} /\ ~(CHOOSE v \in rsp : TRUE).symbolic
       THEN set_register(h, c, RSP,
                make_value(address, (CHOOSE v \in rsp : TRUE).v + stack_slot))
       ELSE h

\* Arithmetic of uintptr_t wraps around.
uintptr_t(x) == x % (2 ^ WordBits)

\* A decoded operand: a register, an immediate, or memory at an address
\* given by its displacement alone.
RegisterOperand(reg) == [type |-> "REGISTER", reg |-> reg, imm |-> 0]

ImmediateOperand(imm) == [type |-> "IMMEDIATE", reg |-> 0, imm |-> imm]

MemoryOperand(disp) == [type |-> "MEMORY", reg |-> 0, imm |-> disp]

\* get_operand: [reg, address, value].  reg is 0 (ZYDIS_REGISTER_NONE)
\* and address is 0 (no address) unless the operand sets them.  A register
\* operand reads the register and a memory operand the memory; a symbolic
\* value stands for one that is not there.
get_operand(h, c, operand, source) ==
    IF operand.type = "IMMEDIATE"
    THEN [reg |-> 0, address |-> 0, value |-> make_value(source, operand.imm)]
    ELSE IF operand.type = "MEMORY"
    THEN LET values == get_memory(h, h[c], operand.imm)
         IN  [reg     |-> 0,
              address |-> operand.imm,
              value   |-> IF values # {} THEN CHOOSE v \in values : TRUE
                          ELSE make_symbolic_value(source, 0)]
    ELSE LET valsrc == get_register(h, h[c], operand.reg)
         IN  [reg     |-> operand.reg,
              address |-> 0,
              value   |-> IF valsrc # {} THEN CHOOSE v \in valsrc : TRUE
                          ELSE make_symbolic_value(source, 0)]

\* emulate_instruction_helper with the action of XOR, on operands of 8
\* bytes.  The offset of a symbol is not modelled: a symbolic dst keeps
\* its id.
emulate_instruction_helper(dst, src) ==
    IF ~dst.symbolic /\ ~src.symbolic
    THEN make_value(src.source, Xor(dst.v, src.v))
    ELSE IF dst.symbolic /\ ~src.symbolic
    THEN make_symbolic_value(src.source, dst.v)
    ELSE make_symbolic_value(src.source, 0)

\* emulate_instruction for XOR with two explicit operands.
emulate_instruction(h, c, address, operand, operand2) ==
    LET dst == get_operand(h, c, operand, address)
        src == get_operand(h, c, operand2, address)
        value == IF dst.reg = src.reg
                 THEN make_value(address, 0)
                 ELSE emulate_instruction_helper(dst.value, src.value)
    IN IF dst.reg # 0
       THEN set_register(h, c, dst.reg, [value EXCEPT !.source = address])
       ELSE IF dst.address # 0
       THEN set_memory(h, c, dst.address, [value EXCEPT !.source = address])
       ELSE h

\* Recontex::volatile_registers_: the register after RSP stands for RAX
\* and the other volatile registers; RSP and the registers after it are
\* not volatile.
volatile_registers_ == {RSP + 1}

RECURSIVE reset_registers(_, _, _, _)
reset_registers(h, c, address, registers) ==
    IF registers = {} THEN h
    ELSE LET reg == CHOOSE r \in registers : TRUE
         IN  reset_registers(
                 set_register(h, c, reg, make_symbolic_value(address, 0)),
                 c, address, registers \ {reg})

\* emulate_instruction_call with the return address pushed.
emulate_instruction_call_pushing(h, c, address) ==
    LET rsp == get_register(h, h[c], RSP)
        h1 == IF rsp # {} /\ ~(CHOOSE v \in rsp : TRUE).symbolic
              THEN LET new_rsp == uintptr_t((CHOOSE v \in rsp : TRUE).v
                                                   - stack_slot)
                   IN  set_register(
                           set_memory(h, c, new_rsp, make_value(address, address)),
                           c, RSP, make_value(address, new_rsp))
              ELSE h
    IN reset_registers(h1, c, address, volatile_registers_)

emulate_instruction_call(h, c, address) ==
    reset_registers(h, c, address, volatile_registers_)

emulate_instruction_push(h, c, address, operand) ==
    LET rsp == get_register(h, h[c], RSP)
    IN IF rsp # {} /\ ~(CHOOSE v \in rsp : TRUE).symbolic
       THEN LET new_rsp == uintptr_t((CHOOSE v \in rsp : TRUE).v - stack_slot)
                op == get_operand(h, c, operand, address)
            IN  set_memory(set_register(h, c, RSP, make_value(address, new_rsp)),
                           c, new_rsp, [op.value EXCEPT !.source = address])
       ELSE h

\* emulate_instruction_pop: RSP is written first, then operands[0], the
\* destination, is read by get_operand and written back with the new
\* source.
emulate_instruction_pop(h, c, address, operand) ==
    LET rsp == get_register(h, h[c], RSP)
    IN IF rsp # {} /\ ~(CHOOSE v \in rsp : TRUE).symbolic
       THEN LET new_rsp == uintptr_t((CHOOSE v \in rsp : TRUE).v + stack_slot)
                h1 == set_register(h, c, RSP, make_value(address, new_rsp))
                op == get_operand(h1, c, operand, address)
            IN  IF op.reg # 0
                THEN set_register(h1, c, op.reg,
                                  [op.value EXCEPT !.source = address])
                ELSE h1
       ELSE h

\* emulate: PUSH and POP move the stack pointer, XOR goes through
\* emulate_instruction, CALL resets the volatile registers, RET pops, a
\* jump writes RIP only, and OP is an instruction without an operand it
\* writes.
emulate(h, c, address, ins) ==
    IF ins.mnemonic = "PUSH"
    THEN emulate_instruction_push(h, c, address, ins.operand)
    ELSE IF ins.mnemonic = "POP"
    THEN emulate_instruction_pop(h, c, address, ins.operand)
    ELSE IF ins.mnemonic = "XOR"
    THEN emulate_instruction(h, c, address, ins.operand, ins.operand2)
    ELSE IF ins.mnemonic = "CALL"
    THEN emulate_instruction_call(h, c, address)
    ELSE IF ins.mnemonic = "RET" THEN emulate_instruction_ret(h, c, address)
    ELSE IF Flo_is_any_jump(ins)
    THEN set_register(h, c, RIP, make_symbolic_value(address, 0))
    ELSE h

\* propagate_contexts over the contexts cs, a sequence of ids: the state
\* st = [fc, heap, id, new_contexts] after it.
RECURSIVE propagate_contexts(_, _, _, _)
propagate_contexts(st, address, ins, cs) ==
    IF cs = << >> THEN st
    ELSE LET fc1   == emplace_context(st.fc, st.heap, address, Head(cs))
             child == st.id + 1
             h1    == st.heap @@ (child :> make_child(st.heap[Head(cs)], child, FALSE))
             h2    == emulate(h1, child, address, ins)
         IN propagate_contexts(
                [fc |-> fc1, heap |-> h2, id |-> child,
                 new_contexts |-> Append(st.new_contexts, child)],
                address, ins, Tail(cs))

\* make_child_contexts: a child of every context.
RECURSIVE make_child_contexts(_, _)
make_child_contexts(st, cs) ==
    IF cs = << >> THEN st
    ELSE LET child == st.id + 1
         IN make_child_contexts(
                [st EXCEPT !.heap = @ @@ (child :> make_child(@[Head(cs)], child, FALSE)),
                           !.id = child,
                           !.new_contexts = Append(@, child)],
                Tail(cs))

\* make_flo_initial_contexts, and the first call of analyze_flo.
StartAnalyzeFlo ==
    /\ cov_pc = "done"
    /\ LET h == set_register(Context_root(heap, GLOBAL_ID + 1, nullptr, 0),
                             GLOBAL_ID + 1, RSP, make_value(1, stack_top))
       IN /\ heap' = h
          /\ GLOBAL_ID' = GLOBAL_ID + 1
          /\ af_stack' = <<[paths    |-> optimal_paths_to_analyze_paths(paths_),
                            contexts |-> <<GLOBAL_ID + 1>>,
                            address  |-> 1]>>
    /\ flo_contexts' = << >>
    /\ assertion' =
          first_false("none",
              <<<<"same_analyze_path(paths)",
                  same_analyze_path(optimal_paths_to_analyze_paths(paths_))>>>>)
    /\ cov_pc' = "analyze_flo"
    /\ UNCHANGED <<flo, nodes_, ends_, nodes_order_, loops_, useless_edges_,
                   dfs_stack, path, paths_, trails, visited_loops>>
    /\ UNCHANGED nonFloVars

\* The stack after the innermost analyze_flo has returned, and the
\* position that goes with it.
af_return(stack) == SubSeq(stack, 1, Len(stack) - 1)

af_pc(stack) == IF stack = << >> THEN "analyzed" ELSE "analyze_flo"

\* next_node->current->jump of the activation fr.
current_jump(fr) == fr.paths[1].path[fr.paths[1].current].jump

\* The asserts of one turn of the loop up to the branch on the mnemonic.
\* With no path next_node is paths.end() and the assert reads garbage: the
\* history records only the asserts that are false on what the paths hold.
turn_asserts(fr) ==
    <<<<"!contexts.empty()", fr.contexts # << >>>>,
      <<"next_node->current->jump >= address",
        \/ fr.paths = << >>
        \/ at_end(fr.paths[1])
        \/ current_jump(fr) >= fr.address>>>>

\* The assert of the RET branch, and the one after its advance.
ret_asserts(fr) ==
    IF fr.paths = << >> THEN << >>
    ELSE <<<<"next_node->current->jump == address && std::next(...) == end",
             \/ at_end(fr.paths[1])
             \/ /\ current_jump(fr) = fr.address
                /\ fr.paths[1].current = Len(fr.paths[1].path)>>,
           <<"same_analyze_path(paths)",
             same_analyze_path(advance_analyze_paths(fr.paths))>>>>

\* One turn of the loop of the innermost analyze_flo.
AnalyzeFloStep ==
    /\ cov_pc = "analyze_flo"
    /\ LET top   == Len(af_stack)
           fr    == af_stack[top]
           instr == Flo_get_instruction(flo, fr.address)
       IN IF ~(fr.address # nullptr /\ fr.address < Flo_end(flo)) \/ instr = {}
          THEN /\ af_stack' = af_return(af_stack)
               /\ cov_pc' = af_pc(af_return(af_stack))
               /\ UNCHANGED <<flo_contexts, heap, GLOBAL_ID, assertion>>
          ELSE \E ins \in instr :
               \E st \in {propagate_contexts(
                              [fc |-> flo_contexts, heap |-> heap,
                               id |-> GLOBAL_ID, new_contexts |-> << >>],
                              fr.address, ins, fr.contexts)} :
                  IF st.new_contexts = << >>
                  THEN /\ af_stack' = af_return(af_stack)
                       /\ cov_pc' = af_pc(af_return(af_stack))
                       /\ flo_contexts' = st.fc
                       /\ heap' = st.heap
                       /\ GLOBAL_ID' = st.id
                       /\ assertion' =
                             first_false(assertion, SubSeq(turn_asserts(fr), 1, 1))
                  ELSE IF ins.mnemonic = "RET"
                  THEN /\ af_stack' = af_return(af_stack)
                       /\ cov_pc' = af_pc(af_return(af_stack))
                       /\ flo_contexts' = st.fc
                       /\ heap' = st.heap
                       /\ GLOBAL_ID' = st.id
                       /\ assertion' =
                             first_false(assertion,
                                         turn_asserts(fr) \o ret_asserts(fr))
                  ELSE IF ~Flo_is_any_jump(ins)
                  THEN /\ af_stack' = [af_stack EXCEPT ![top] =
                                          [fr EXCEPT !.contexts = st.new_contexts,
                                                     !.address = @ + InstrLen]]
                       /\ flo_contexts' = st.fc
                       /\ heap' = st.heap
                       /\ GLOBAL_ID' = st.id
                       /\ assertion' = first_false(assertion, turn_asserts(fr))
                       /\ UNCHANGED cov_pc
                  ELSE IF fr.paths = << >>
                  THEN \* next_node is paths.end(): what it reads is garbage
                       /\ flo_contexts' = st.fc
                       /\ heap' = st.heap
                       /\ GLOBAL_ID' = st.id
                       /\ assertion' = first_false(assertion, turn_asserts(fr))
                       /\ \/ /\ af_stack' = af_return(af_stack)
                             /\ cov_pc' = af_pc(af_return(af_stack))
                          \/ /\ af_stack' = af_stack
                             /\ cov_pc' = "crashed"
                  ELSE IF at_end(fr.paths[1])
                  THEN /\ af_stack' = af_return(af_stack)
                       /\ cov_pc' = af_pc(af_return(af_stack))
                       /\ flo_contexts' = st.fc
                       /\ heap' = st.heap
                       /\ GLOBAL_ID' = st.id
                       /\ assertion' = first_false(assertion, turn_asserts(fr))
                  ELSE \E garbage \in BOOLEAN :
                       LET sp    == split_analyze_paths(fr.paths, garbage)
                           kids  == IF sp.skip # << >>
                                    THEN make_child_contexts(
                                             [st EXCEPT !.new_contexts = << >>],
                                             st.new_contexts)
                                    ELSE st
                           cont  == IF sp.paths = << >> THEN << >>
                                    ELSE <<[paths    |-> advance_analyze_paths(sp.paths),
                                            contexts |-> st.new_contexts,
                                            address  |-> ins.dst]>>
                           inner == IF sp.skip = << >> THEN << >>
                                    ELSE <<[paths    |-> advance_analyze_paths(sp.skip),
                                            contexts |-> kids.new_contexts,
                                            address  |-> fr.address + InstrLen]>>
                           stack == SubSeq(af_stack, 1, top - 1) \o cont \o inner
                       IN /\ af_stack' = stack
                          /\ cov_pc' = af_pc(stack)
                          /\ flo_contexts' = st.fc
                          /\ heap' = kids.heap
                          /\ GLOBAL_ID' = kids.id
                          /\ assertion' =
                                first_false(assertion,
                                    turn_asserts(fr)
                                    \o <<<<"next_node->current->jump == address",
                                           current_jump(fr) = fr.address>>,
                                         <<"same_analyze_path(paths)",
                                           /\ same_analyze_path(
                                                  advance_analyze_paths(sp.skip))
                                           /\ same_analyze_path(
                                                  advance_analyze_paths(sp.paths))>>>>)
    /\ UNCHANGED <<flo, nodes_, ends_, nodes_order_, loops_, useless_edges_,
                   dfs_stack, path, paths_, trails, visited_loops>>
    /\ UNCHANGED nonFloVars

NextCov ==
    \/ Analyze
    \/ VisitBranch
    \/ Return
    \/ StartAnalyzeFlo
    \/ AnalyzeFloStep

InitSpecCov ==
    IdleReflo /\ InitCov /\ IdleCtx /\ IdleStruc /\ IdleThr /\ IdlePE

SpecCov == InitSpecCov /\ [][NextCov]_vars

\* analyze() runs in one thread: it always takes its next step.
FairSpecCov == SpecCov /\ WF_vars(NextCov)

\* ------------------------------------------------------------------------
\* Struc (struc.cxx)
\* ------------------------------------------------------------------------

\* The Struc objects, by identity.
Strucs == 1..MaxStrucs

\* Field offsets and the sizes of Int, UInt and Float fields drawn.
Offsets == {4 * k : k \in 0..MaxOffsetIndex}

FieldSizes == {4, 8}

\* Field::Type: the enumerators in declaration order.  is_duplicate
\* compares types by this number.
Field_Type == [UInt |-> 0, Int |-> 1, Float |-> 2, Pointer |-> 3, Struc |-> 4]

\* No referenced struct.
Atomic == nullptr

Field(type, size, count, struc) ==
    [type_ |-> type, size_ |-> size, count_ |-> count, struc_ |-> struc]

\* (field.*alias_check)(size), for the three member functions that are
\* passed as alias_check.
alias_check(check, field, size) ==
    CASE check = "is_pointer_alias" ->
             field.size_ = 8 /\ field.type_ \in {"Int", "UInt", "Pointer"}
      [] check = "is_float_alias" ->
             field.size_ = size /\ field.type_ \in {"Int", "UInt", "Float"}
      [] check = "is_typed_int_alias" ->
             /\ field.size_ = size
             /\ field.type_ \in {"Int", "UInt", "Float", "Pointer"}

\* fields_.upper_bound(offset): the number of entries whose key is at most
\* offset.  fields_ is a multimap: a sequence of [offset, field] ordered by
\* offset, entries of equal offset in the order of their insertion.
fields_upper_bound(fields, offset) ==
    Cardinality({i \in 1..Len(fields) : fields[i].offset <= offset})

\* The loop walks back from upper_bound(offset) and stops at the first
\* entry that ends at or before offset: it reaches entry i when no entry
\* from i to the start of the walk has stopped it.
is_duplicate(fields, offset, field) ==
    LET ub == fields_upper_bound(fields, offset)
        offset_end(i) ==
            fields[i].offset + fields[i].field.count_ * fields[i].field.size_
        reached(i) == \A j \in i..ub : offset_end(j) > offset
        same_slot(i) ==
            /\ fields[i].field.size_ = field.size_
            /\ fields[i].offset % field.size_ = offset % field.size_
        covers(current_field) ==
            CASE current_field.type_ \in {"UInt", "Int"} ->
                     /\ alias_check("is_typed_int_alias", field,
                                    current_field.size_)
                     /\ Field_Type[field.type_] <= Field_Type[current_field.type_]
              [] current_field.type_ = "Float" ->
                     /\ alias_check("is_float_alias", field,
                                    current_field.size_)
                     /\ Field_Type[field.type_] <= Field_Type[current_field.type_]
              [] current_field.type_ = "Pointer" ->
                     /\ alias_check("is_pointer_alias", field,
                                    current_field.size_)
                     /\ Field_Type[field.type_] <= Field_Type[current_field.type_]
              [] current_field.type_ = "Struc" ->
                     field.type_ = current_field.type_
    IN  \E i \in 1..ub :
            reached(i) /\ same_slot(i) /\ covers(fields[i].field)

has_aliases(fields, offset, check, size) ==
    \E i \in 1..Len(fields) :
        fields[i].offset = offset /\ alias_check(check, fields[i].field, size)

\* The fields left and the count returned: the largest count among all
\* entries at offset, erased or not, and at least 1.
remove_aliases(fields, offset, check, size) ==
    LET kept(e) == ~(e.offset = offset /\ alias_check(check, e.field, size))
    IN  [fields_ |-> SelectSeq(fields, kept),
         count   |-> SetMax({1} \cup {fields[i].field.count_ :
                        i \in {j \in 1..Len(fields) : fields[j].offset = offset}})]

\* emplace puts the entry behind the entries of equal offset.
add_field(S, offset, field) ==
    IF is_duplicate(S.fields_, offset, field) THEN S
    ELSE LET ub == fields_upper_bound(S.fields_, offset)
         IN  [fields_    |-> SubSeq(S.fields_, 1, ub)
                                \o <<[offset |-> offset, field |-> field]>>
                                \o SubSeq(S.fields_, ub + 1, Len(S.fields_)),
              field_set_ |-> S.field_set_
                                \cup {offset + i * field.size_ :
                                          i \in 0..(field.count_ - 1)}]

add_int_field(S, offset, size, signedness, count) ==
    IF ~has_aliases(S.fields_, offset, "is_typed_int_alias", size)
    THEN add_field(S, offset,
                   Field(IF signedness = "Unsigned" THEN "UInt" ELSE "Int",
                         size, count, Atomic))
    ELSE S

\* add_float_field without the removal of the aliases.
add_float_field_keeping_aliases(S, offset, size, count) ==
    add_field(S, offset, Field("Float", size, count, Atomic))

add_float_field(S, offset, size, count) ==
    LET removed == remove_aliases(S.fields_, offset, "is_float_alias", size)
        max_removed_count == removed.count
    IN  add_field([S EXCEPT !.fields_ = removed.fields_], offset,
                  Field("Float", size,
                        IF max_removed_count > count THEN max_removed_count
                                                     ELSE count,
                        Atomic))

\* add_pointer_field without the removal of the aliases.
add_pointer_field_keeping_aliases(S, offset, count, struc) ==
    add_field(S, offset, Field("Pointer", 8, count, struc))

add_pointer_field(S, offset, count, struc) ==
    LET removed == remove_aliases(S.fields_, offset, "is_pointer_alias", 8)
        max_removed_count == removed.count
    IN  add_field([S EXCEPT !.fields_ = removed.fields_], offset,
                  Field("Pointer", 8,
                        IF max_removed_count > count THEN max_removed_count
                                                     ELSE count,
                        struc))

add_struc_field(S, offset, struc, count) ==
    add_field(S, offset, Field("Struc", 0, count, struc))

has_field_at_offset(S, offset) == offset \in S.field_set_

merge_fields(S, offset, field) ==
    IF ~has_field_at_offset(S, offset) THEN add_field(S, offset, field)
    ELSE IF is_duplicate(S.fields_, offset, field) THEN S
    ELSE IF field.type_ = "Pointer" /\ field.struc_ # nullptr
         THEN add_pointer_field(S, offset, 1, field.struc_)
    ELSE IF field.type_ = "Float"
         THEN add_float_field(S, offset, field.size_, field.count_)
    ELSE add_field(S, offset, field)

\* print: it_end when the inner while loop ends. The loop goes on while
\* the entry before it_end ends above the offset of the entry at it_end.
RECURSIVE print_union_end(_, _)
print_union_end(fields, it_end) ==
    IF it_end > Len(fields) THEN it_end
    ELSE LET prev == fields[it_end - 1]
             offset == prev.offset + prev.field.size_ * prev.field.count_
         IN  IF offset <= fields[it_end].offset THEN it_end
             ELSE print_union_end(fields, it_end + 1)

\* print: the blocks emitted from the entry it on, in order. A block holds
\* union_field_count entries from its first one on; it is a union block
\* when it holds more than one and a plain member otherwise.
RECURSIVE print(_, _)
print(fields, it) ==
    IF it > Len(fields) THEN << >>
    ELSE LET it_end == print_union_end(fields, it + 1)
         IN  <<[first |-> it, union_field_count |-> it_end - it]>>
                 \o print(fields, it_end)

get_size(S) ==
    IF S.fields_ = << >> THEN 0
    ELSE LET last_offset == S.fields_[Len(S.fields_)].offset
             last_fields ==
                 {S.fields_[i].field :
                     i \in {j \in 1..Len(S.fields_) :
                                S.fields_[j].offset = last_offset}}
         IN  last_offset + SetMax({f.size_ : f \in last_fields})

\* A merge call returns [strucs, status].  status is "ok" when the call
\* returns.  It is "overflow" when the call is made with the structs and
\* the arguments of a call that is still running: the recursion then never
\* ends.  It is "invalidated" when a nested call changes a multimap that a
\* running loop iterates (two structs that point to each other suffice),
\* and "deep" when MaxMergeDepth calls are nested: the model does not
\* follow these two further, a run ends there.  active holds the running
\* calls.
RECURSIVE merge(_, _, _, _)

\* The loop of try_merge_struc_field_at_offset, at the i-th entry of
\* dst_fields, walking back.
RECURSIVE try_merge_from(_, _, _, _, _, _, _)
try_merge_from(r, dst, dst_fields, i, offset, src_field, active) ==
    IF i = 0 \/ r.status # "ok" THEN r
    ELSE LET dst_field == dst_fields[i].field
             dst_field_offset == dst_fields[i].offset
             dst_field_offset_end ==
                 dst_field_offset + dst_field.count_ * dst_field.size_
         IN  IF dst_field_offset_end <= offset THEN r
             ELSE IF \/ dst_field.type_ # "Pointer"
                     \/ dst_field.struc_ = nullptr
                     \/ dst_field_offset % 8 # offset % 8
             THEN try_merge_from(r, dst, dst_fields, i - 1, offset,
                                 src_field, active)
             ELSE LET m == merge(r.strucs, dst_field.struc_,
                                 src_field.struc_, active)
                  IN  try_merge_from(
                          [strucs |-> m.strucs,
                           status |->
                               IF m.status # "ok" THEN m.status
                               ELSE IF m.strucs[dst].fields_
                                           # r.strucs[dst].fields_
                                    THEN "invalidated" ELSE "ok",
                           merged |-> TRUE],
                          dst, dst_fields, i - 1, offset, src_field, active)

try_merge_struc_field_at_offset(st, dst, offset, src_field, active) ==
    IF src_field.type_ # "Pointer" \/ src_field.struc_ = nullptr
    THEN [strucs |-> st, status |-> "ok", merged |-> FALSE]
    ELSE try_merge_from([strucs |-> st, status |-> "ok", merged |-> FALSE],
                        dst, st[dst].fields_,
                        fields_upper_bound(st[dst].fields_, offset),
                        offset, src_field, active)

\* The loop of merge over src.fields(), at its i-th entry.  The call of
\* merge_callback that ends it changes no field.
RECURSIVE merge_from(_, _, _, _, _, _)
merge_from(r, dst, src, src_fields, i, active) ==
    IF r.status # "ok" \/ i > Len(src_fields) THEN r
    ELSE LET offset == src_fields[i].offset
             field == src_fields[i].field
             t == try_merge_struc_field_at_offset(r.strucs, dst, offset,
                                                  field, active)
         IN  merge_from(
                 [strucs |->
                      IF t.merged \/ t.status # "ok" THEN t.strucs
                      ELSE [t.strucs EXCEPT
                               ![dst] = merge_fields(@, offset, field)],
                  status |->
                      IF t.status # "ok" THEN t.status
                      ELSE IF t.strucs[src].fields_ # r.strucs[src].fields_
                           THEN "invalidated" ELSE "ok"],
                 dst, src, src_fields, i + 1, active)

merge(st, dst, src, active) ==
    IF dst = src THEN [strucs |-> st, status |-> "ok"]
    ELSE IF <<st, dst, src>> \in active
         THEN [strucs |-> st, status |-> "overflow"]
    ELSE IF Cardinality(active) >= MaxMergeDepth
         THEN [strucs |-> st, status |-> "deep"]
    ELSE merge_from([strucs |-> st, status |-> "ok"], dst, src,
                    st[src].fields_, 1, active \cup {<<st, dst, src>>})

\* The calls made on the Strucs, one action per member function.  last_op
\* records the call, whether the call before it was add_int_field on the
\* same struct with the same offset and size (after_int), and whether the
\* struct held an 8-byte Int or UInt field at the offset when the call was
\* made (over_int8).  count is the count the call was given.
Op(op, struc, offset, size, src, count) ==
    [op |-> op, struc |-> struc, offset |-> offset, size |-> size,
     src |-> src, count |-> count,
     after_int |-> /\ op # "none"
                   /\ last_op.op = "add_int_field"
                   /\ last_op.struc = struc
                   /\ last_op.offset = offset
                   /\ last_op.size = size,
     over_int8 |-> /\ op \notin {"none", "merge"}
                   /\ \E i \in 1..Len(strucs[struc].fields_) :
                          /\ strucs[struc].fields_[i].offset = offset
                          /\ strucs[struc].fields_[i].field.size_ = 8
                          /\ strucs[struc].fields_[i].field.type_
                                 \in {"Int", "UInt"}]

InitStruc ==
    /\ strucs = [s \in Strucs |-> [fields_ |-> << >>, field_set_ |-> {}]]
    /\ struc_pc = "run"
    /\ struc_ops = 0
    /\ last_op = Op("none", 0, 0, 0, 0, 0)

AddIntField ==
    /\ struc_pc = "run"
    /\ struc_ops < MaxStrucOps
    /\ \E s \in Strucs, offset \in Offsets, size \in FieldSizes,
          signedness \in {"Signed", "Unsigned"}, count \in 1..MaxCount :
          /\ strucs' = [strucs EXCEPT
                           ![s] = add_int_field(@, offset, size, signedness,
                                                count)]
          /\ last_op' = Op("add_int_field", s, offset, size, 0, count)
    /\ struc_ops' = struc_ops + 1
    /\ UNCHANGED <<struc_pc, nonStrucVars>>

AddFloatField ==
    /\ struc_pc = "run"
    /\ struc_ops < MaxStrucOps
    /\ \E s \in Strucs, offset \in Offsets, size \in FieldSizes,
          count \in 1..MaxCount :
          /\ strucs' = [strucs EXCEPT
                           ![s] = add_float_field(@, offset, size, count)]
          /\ last_op' = Op("add_float_field", s, offset, size, 0, count)
    /\ struc_ops' = struc_ops + 1
    /\ UNCHANGED <<struc_pc, nonStrucVars>>

AddPointerField ==
    /\ struc_pc = "run"
    /\ struc_ops < MaxStrucOps
    /\ \E s \in Strucs, offset \in Offsets, count \in 1..MaxCount,
          struc \in Strucs \cup {nullptr} :
          /\ strucs' = [strucs EXCEPT
                           ![s] = add_pointer_field(@, offset, count, struc)]
          /\ last_op' = Op("add_pointer_field", s, offset, 8, 0, count)
    /\ struc_ops' = struc_ops + 1
    /\ UNCHANGED <<struc_pc, nonStrucVars>>

AddStrucField ==
    /\ struc_pc = "run"
    /\ struc_ops < MaxStrucOps
    /\ \E s \in Strucs, offset \in Offsets, count \in 1..MaxCount,
          struc \in Strucs :
          /\ struc # s
          /\ strucs' = [strucs EXCEPT
                           ![s] = add_struc_field(@, offset, struc, count)]
          /\ last_op' = Op("add_struc_field", s, offset, 0, 0, count)
    /\ struc_ops' = struc_ops + 1
    /\ UNCHANGED <<struc_pc, nonStrucVars>>

Merge ==
    /\ struc_pc = "run"
    /\ struc_ops < MaxStrucOps
    /\ \E dst \in Strucs, src \in Strucs :
          \E r \in {merge(strucs, dst, src, {})} :
              /\ strucs' = r.strucs
              /\ struc_pc' = IF r.status = "ok" THEN "run" ELSE r.status
              /\ last_op' = Op("merge", dst, 0, 0, src, 0)
    /\ struc_ops' = struc_ops + 1
    /\ UNCHANGED nonStrucVars

NextStruc ==
    \/ AddIntField
    \/ AddFloatField
    \/ AddPointerField
    \/ AddStrucField
    \/ Merge

InitSpecStruc ==
    IdleReflo /\ IdleCov /\ IdleCtx /\ InitStruc /\ IdleThr /\ IdlePE

SpecStruc == InitSpecStruc /\ [][NextStruc]_vars

\* ------------------------------------------------------------------------
\* Threads in add_int_field, add_float_field and add_pointer_field of one
\* Struc
\* ------------------------------------------------------------------------

Mutators == 1..MaxMutators

\* The Struc the threads call into: the first one.
shared == CHOOSE s \in Strucs : \A u \in Strucs : s <= u

\* A thread that has not called yet.
NoCall ==
    [pc |-> "idle", op |-> "none", type |-> "none", offset |-> 0, size |-> 0,
     count |-> 0, field_count |-> 0, torn |-> FALSE]

\* The calls a thread can make.
AddCalls ==
    [op : {"add_int_field"}, type : {"UInt", "Int"}, offset : Offsets,
     size : FieldSizes, count : 1..MaxCount]
      \cup [op : {"add_float_field"}, type : {"Float"}, offset : Offsets,
            size : FieldSizes, count : 1..MaxCount]
      \cup [op : {"add_pointer_field"}, type : {"Pointer"}, offset : Offsets,
            size : {8}, count : 1..MaxCount]

InitAdd ==
    /\ InitStruc
    /\ mutators = [mutex |-> 0, call |-> [t \in Mutators |-> NoCall]]

\* The threads whose is_duplicate is iterating fields_ lose their
\* iterators when another thread changes fields_.
tear(call, t, changed) ==
    [u \in Mutators |->
        IF u # t /\ changed /\ call[u].pc = "iterating"
        THEN [call[u] EXCEPT !.torn = TRUE] ELSE call[u]]

\* The thread t calls add_int_field, add_float_field or add_pointer_field.
AddCall(t) ==
    /\ mutators.call[t].pc = "idle"
    /\ \E c \in AddCalls :
          mutators' = [mutators EXCEPT
              !.call[t] = [pc |-> "aliases", op |-> c.op, type |-> c.type,
                           offset |-> c.offset, size |-> c.size,
                           count |-> c.count, field_count |-> c.count,
                           torn |-> FALSE]]
    /\ UNCHANGED <<strucVars, refloVars, covVars, floVars, ctxVars, thrVars,
                   pe, emu>>

\* has_aliases of add_int_field, remove_aliases of the two others: no
\* mutex is held.
AddAliases(t) ==
    LET c == mutators.call[t]
        fields == strucs[shared].fields_
    IN  /\ c.pc = "aliases"
        /\ IF c.op = "add_int_field"
           THEN /\ mutators' = [mutators EXCEPT
                       !.call[t].pc =
                           IF has_aliases(fields, c.offset,
                                          "is_typed_int_alias", c.size)
                           THEN "returned" ELSE "is_duplicate"]
                /\ UNCHANGED strucs
           ELSE LET removed ==
                        remove_aliases(fields, c.offset,
                                       IF c.op = "add_float_field"
                                       THEN "is_float_alias"
                                       ELSE "is_pointer_alias", c.size)
                IN  /\ strucs' = [strucs EXCEPT
                                     ![shared].fields_ = removed.fields_]
                    /\ mutators' = [mutators EXCEPT
                           !.call = [tear(@, t, removed.fields_ # fields)
                                        EXCEPT ![t].pc = "is_duplicate",
                                               ![t].field_count =
                                                   SetMax({removed.count,
                                                           c.count})]]
        /\ UNCHANGED <<struc_pc, struc_ops, last_op>>
        /\ UNCHANGED <<refloVars, covVars, floVars, ctxVars, thrVars, pe, emu>>

\* add_field: is_duplicate starts to walk fields_, no mutex held.
AddIsDuplicate(t) ==
    /\ mutators.call[t].pc = "is_duplicate"
    /\ mutators' = [mutators EXCEPT !.call[t].pc = "iterating",
                                    !.call[t].torn = FALSE]
    /\ UNCHANGED <<strucVars, refloVars, covVars, floVars, ctxVars, thrVars,
                   pe, emu>>

\* is_duplicate returns.  When fields_ was changed under the walk the
\* behaviour is undefined: the walk returns either answer or the program
\* crashes.
AddIsDuplicateReturn(t) ==
    LET c == mutators.call[t]
        field == Field(c.type, c.size, c.field_count, Atomic)
    IN  /\ c.pc = "iterating"
        /\ \E next \in IF c.torn THEN {"returned", "lock", "crashed"}
                       ELSE IF is_duplicate(strucs[shared].fields_, c.offset,
                                            field)
                       THEN {"returned"} ELSE {"lock"} :
              mutators' = [mutators EXCEPT !.call[t].pc = next]
        /\ UNCHANGED <<strucVars, refloVars, covVars, floVars, ctxVars,
                       thrVars, pe, emu>>

\* add_field: the scoped_lock on mutex().
AddLock(t) ==
    /\ mutators.call[t].pc = "lock"
    /\ mutators.mutex = 0
    /\ mutators' = [mutators EXCEPT !.mutex = t, !.call[t].pc = "locked"]
    /\ UNCHANGED <<strucVars, refloVars, covVars, floVars, ctxVars, thrVars,
                   pe, emu>>

\* add_field: field_set_.insert, fields_.emplace, and the mutex released.
AddEmplace(t) ==
    LET c == mutators.call[t]
        S == strucs[shared]
        ub == fields_upper_bound(S.fields_, c.offset)
    IN  /\ c.pc = "locked"
        /\ strucs' = [strucs EXCEPT ![shared] =
              [fields_    |-> SubSeq(S.fields_, 1, ub)
                                 \o <<[offset |-> c.offset,
                                       field  |-> Field(c.type, c.size,
                                                        c.field_count, Atomic)]>>
                                 \o SubSeq(S.fields_, ub + 1, Len(S.fields_)),
               field_set_ |-> S.field_set_
                                 \cup {c.offset + i * c.size :
                                          i \in 0..(c.field_count - 1)}]]
        /\ mutators' = [mutators EXCEPT
                           !.mutex = 0,
                           !.call = [tear(@, t, TRUE) EXCEPT ![t].pc = "returned"]]
        /\ UNCHANGED <<struc_pc, struc_ops, last_op>>
        /\ UNCHANGED <<refloVars, covVars, floVars, ctxVars, thrVars, pe, emu>>

NextAdd ==
    \E t \in Mutators :
        \/ AddCall(t)
        \/ AddAliases(t)
        \/ AddIsDuplicate(t)
        \/ AddIsDuplicateReturn(t)
        \/ AddLock(t)
        \/ AddEmplace(t)

InitSpecAdd ==
    /\ IdleReflo /\ IdleCov /\ IdleCtx /\ IdleThr
    /\ pe = << >> /\ emu = << >>
    /\ InitAdd

SpecAdd == InitSpecAdd /\ [][NextAdd]_vars

\* ------------------------------------------------------------------------
\* Threads in merge
\* ------------------------------------------------------------------------

\* The scoped_locks of a call of merge, in the order they are taken and
\* released: [op, struc], op "lock" or "unlock" of the mutex of struc.
\* The structs are threaded through as merge threads them; where merge
\* does not return, the events stop.
Locked(struc, events) ==
    <<[op |-> "lock", struc |-> struc]>> \o events
        \o <<[op |-> "unlock", struc |-> struc]>>

RECURSIVE merge_events(_, _, _, _)

\* try_merge_struc_field_at_offset: the loop at the i-th entry, walking
\* back.
RECURSIVE try_merge_events(_, _, _, _, _, _, _)
try_merge_events(st, dst, dst_fields, i, offset, src_field, active) ==
    IF i = 0 THEN << >>
    ELSE LET dst_field == dst_fields[i].field
             dst_field_offset == dst_fields[i].offset
             dst_field_offset_end ==
                 dst_field_offset + dst_field.count_ * dst_field.size_
         IN  IF dst_field_offset_end <= offset THEN << >>
             ELSE IF \/ dst_field.type_ # "Pointer"
                     \/ dst_field.struc_ = nullptr
                     \/ dst_field_offset % 8 # offset % 8
             THEN try_merge_events(st, dst, dst_fields, i - 1, offset,
                                   src_field, active)
             ELSE LET m == merge(st, dst_field.struc_, src_field.struc_, active)
                  IN  merge_events(st, dst_field.struc_, src_field.struc_,
                                   active)
                        \o IF \/ m.status # "ok"
                              \/ m.strucs[dst].fields_ # st[dst].fields_
                           THEN << >>
                           ELSE try_merge_events(m.strucs, dst, dst_fields,
                                                 i - 1, offset, src_field,
                                                 active)

\* The loop of merge over src.fields(), at its i-th entry: the lock of
\* try_merge_struc_field_at_offset for a pointer to a struct, and the lock
\* of add_field where merge_fields inserts.
RECURSIVE merge_events_from(_, _, _, _, _, _)
merge_events_from(st, dst, src, src_fields, i, active) ==
    IF i > Len(src_fields) THEN << >>
    ELSE LET offset == src_fields[i].offset
             field == src_fields[i].field
             t == try_merge_struc_field_at_offset(st, dst, offset, field,
                                                  active)
             next == IF t.merged \/ t.status # "ok" THEN t.strucs
                     ELSE [t.strucs EXCEPT
                              ![dst] = merge_fields(@, offset, field)]
             tried == IF field.type_ = "Pointer" /\ field.struc_ # nullptr
                      THEN Locked(dst,
                               try_merge_events(
                                   st, dst, st[dst].fields_,
                                   fields_upper_bound(st[dst].fields_, offset),
                                   offset, field, active))
                      ELSE << >>
             added == IF next # t.strucs THEN Locked(dst, << >>) ELSE << >>
         IN  tried \o added
               \o IF \/ t.status # "ok"
                     \/ t.strucs[src].fields_ # st[src].fields_
                  THEN << >>
                  ELSE merge_events_from(next, dst, src, src_fields, i + 1,
                                         active)

merge_events(st, dst, src, active) ==
    IF dst = src THEN << >>
    ELSE IF <<st, dst, src>> \in active \/ Cardinality(active) >= MaxMergeDepth
         THEN << >>
    ELSE LET r == merge(st, dst, src, active)
             events == merge_events_from(st, dst, src, st[src].fields_, 1,
                                         active \cup {<<st, dst, src>>})
         IN  IF r.status = "ok" THEN Locked(src, events)
             ELSE <<[op |-> "lock", struc |-> src]>> \o events

\* A thread that has not called merge yet.
NoMerge == [pc |-> "idle", dst |-> 0, src |-> 0, events |-> << >>]

\* Every Struc holds a pointer field at offset 0, to a Struc or to none.
InitMerge ==
    /\ \E pointee \in [Strucs -> Strucs \cup {nullptr}] :
          strucs = [s \in Strucs |->
                       add_pointer_field([fields_ |-> << >>, field_set_ |-> {}],
                                         0, 1, pointee[s])]
    /\ struc_pc = "run"
    /\ struc_ops = 0
    /\ last_op = Op("none", 0, 0, 0, 0, 0)
    /\ mutators = [merge_strucs_mutex_ |-> 0,
                   mutex |-> [s \in Strucs |-> [owner |-> 0, count |-> 0]],
                   call |-> [t \in Mutators |-> NoMerge]]

\* The thread t is about to merge src into dst.
MergeCall(t) ==
    /\ mutators.call[t].pc = "idle"
    /\ \E dst \in Strucs, src \in Strucs :
          mutators' = [mutators EXCEPT
                          !.call[t] = [pc |-> "serialize", dst |-> dst,
                                       src |-> src, events |-> << >>]]
    /\ UNCHANGED <<strucVars, refloVars, covVars, floVars, ctxVars, thrVars,
                   pe, emu>>

\* Merging without merge_strucs_mutex_.
can_lock_merge_strucs_mutex_unserialized(t) == TRUE

\* merge_strucs_mutex_ is free.
can_lock_merge_strucs_mutex(t) == mutators.merge_strucs_mutex_ = 0

\* The thread takes merge_strucs_mutex_ and calls dst.merge(src).
MergeSerialize(t) ==
    LET c == mutators.call[t]
    IN  /\ c.pc = "serialize"
        /\ can_lock_merge_strucs_mutex(t)
        /\ mutators' = [mutators EXCEPT
               !.merge_strucs_mutex_ = t,
               !.call[t].pc = "merge",
               !.call[t].events = merge_events(strucs, c.dst, c.src, {})]
        /\ UNCHANGED <<strucVars, refloVars, covVars, floVars, ctxVars,
                       thrVars, pe, emu>>

\* The recursive mutex of struc is free or the thread's own.
can_lock(t, struc) == mutators.mutex[struc].owner \in {0, t}

\* The next scoped_lock of the merge is taken or released.
MergeLock(t) ==
    LET c == mutators.call[t]
        e == Head(c.events)
    IN  /\ c.pc = "merge"
        /\ c.events # << >>
        /\ e.op = "lock" => can_lock(t, e.struc)
        /\ mutators' = [mutators EXCEPT
               !.call[t].events = Tail(@),
               !.mutex[e.struc] =
                   IF e.op = "lock" THEN [owner |-> t, count |-> @.count + 1]
                   ELSE [owner |-> IF @.count = 1 THEN 0 ELSE t,
                         count |-> @.count - 1]]
        /\ UNCHANGED <<strucVars, refloVars, covVars, floVars, ctxVars,
                       thrVars, pe, emu>>

\* merge returns, or it never does; merge_strucs_mutex_ is released when it
\* returns.
MergeReturn(t) ==
    LET c == mutators.call[t]
    IN  /\ c.pc = "merge"
        /\ c.events = << >>
        /\ \E r \in {merge(strucs, c.dst, c.src, {})} :
              /\ strucs' = r.strucs
              /\ mutators' = [mutators EXCEPT
                     !.merge_strucs_mutex_ =
                         IF r.status = "ok" /\ @ = t THEN 0 ELSE @,
                     !.call[t].pc =
                         IF r.status = "ok" THEN "returned" ELSE r.status]
        /\ UNCHANGED <<struc_pc, struc_ops, last_op>>
        /\ UNCHANGED <<refloVars, covVars, floVars, ctxVars, thrVars, pe, emu>>

NextMerge ==
    \E t \in Mutators :
        \/ MergeCall(t)
        \/ MergeSerialize(t)
        \/ MergeLock(t)
        \/ MergeReturn(t)

InitSpecMerge ==
    /\ IdleReflo /\ IdleCov /\ IdleCtx /\ IdleThr
    /\ pe = << >> /\ emu = << >>
    /\ InitMerge

SpecMerge == InitSpecMerge /\ [][NextMerge]_vars

\* ------------------------------------------------------------------------
\* Recontex::analyze, run_analysis and wait_for_analysis: the thread that
\* calls analyze ("main") and one thread per launched task
\* ------------------------------------------------------------------------

Tasks == 1..MaxFlos

\* std::terminate has not ended the process.
Alive == main_pc # "terminated"

\* The predicate run_analysis waits for, with <= in place of <.
can_launch_at_cap == analyzing_threads_count_ <= max_analyzing_threads_

\* The predicate run_analysis waits for.
can_launch == analyzing_threads_count_ < max_analyzing_threads_

\* A notify_all that wakes no waiter.
notify_all_lost(waiting) == waiting

\* analyzing_threads_cv_.notify_all(): no thread stays blocked in wait.
notify_all(waiting) == FALSE

\* The early return of the thread function with the scope guard dismissed.
task_return_unguarded(how) == IF how = "failed" THEN "exited" ELSE "guard"

\* A return of the thread function runs the scope guard.
task_return(how) == "guard"

\* t.join() with the thread detached: it does not wait.
join_detached(t) == TRUE

\* t.join() returns once the thread function of t has returned.
join(t) == task_pc[t] = "exited"

\* The flos of reflo_.get_flos() that run_analysis was called for; a flo
\* and its task carry the same number, in the order of the map.
flos_analyzed == {t \in Tasks : task_pc[t] # "none"}

\* contexts_.at(flo.entry_point) finds no entry and throws
\* std::out_of_range.
get_contexts_throws(f) == f \notin contexts_

\* main runs Reflo::analyze. The constructor has set
\* max_analyzing_threads_ from hardware_concurrency(), which may be 0, or
\* set_max_analyzing_threads has set it; reflo_.get_flos() will hold
\* flos_left flos.
InitThr ==
    /\ max_analyzing_threads_ \in 0..MaxThreads
    /\ analyzing_threads_count_ = 0
    /\ analyzing_threads_ = << >>
    /\ analyzing_threads_mutex_ = "free"
    /\ cv_waiting = FALSE
    /\ main_pc = "reflo"
    /\ flos_left \in 0..MaxFlos
    /\ joined = 0
    /\ task_pc = [t \in Tasks |-> "none"]
    /\ task_exit = [t \in Tasks |-> "none"]
    /\ decrements = [t \in Tasks |-> 0]
    /\ notifies = [t \in Tasks |-> 0]
    /\ contexts_ = {}
    /\ debug_i = 0

\* main: reflo.analyze() returns and recontex.analyze() is called.
RefloAnalyze ==
    /\ main_pc = "reflo"
    /\ main_pc' = "analyze"
    /\ UNCHANGED <<max_analyzing_threads_, analyzing_threads_count_,
                   analyzing_threads_, analyzing_threads_mutex_, cv_waiting,
                   flos_left, joined, task_pc, task_exit, decrements,
                   notifies, contexts_, debug_i, nonThrVars>>

\* analyze: the loop over the flos, then wait_for_analysis.
AnalyzeNext ==
    /\ main_pc = "analyze"
    /\ main_pc' = IF flos_left > 0 THEN "lock" ELSE "join"
    /\ UNCHANGED <<max_analyzing_threads_, analyzing_threads_count_,
                   analyzing_threads_, analyzing_threads_mutex_, cv_waiting,
                   flos_left, joined, task_pc, task_exit, decrements,
                   notifies, contexts_, debug_i,
                   nonThrVars>>

\* run_analysis: std::unique_lock(analyzing_threads_mutex_), and the
\* re-locking when wait wakes up.
RunAnalysisLock ==
    /\ \/ main_pc = "lock"
       \/ main_pc = "wait" /\ ~cv_waiting
    /\ analyzing_threads_mutex_ = "free"
    /\ analyzing_threads_mutex_' = "main"
    /\ main_pc' = "check"
    /\ UNCHANGED <<max_analyzing_threads_, analyzing_threads_count_,
                   analyzing_threads_, cv_waiting, flos_left, joined,
                   task_pc, task_exit, decrements, notifies, contexts_, debug_i,
                   nonThrVars>>

\* wait(lock, pred) with the predicate false: unlock and block.
RunAnalysisWait ==
    /\ main_pc = "check"
    /\ ~can_launch
    /\ analyzing_threads_mutex_' = "free"
    /\ cv_waiting' = TRUE
    /\ main_pc' = "wait"
    /\ UNCHANGED <<max_analyzing_threads_, analyzing_threads_count_,
                   analyzing_threads_, flos_left, joined, task_pc, task_exit,
                   decrements, notifies, contexts_, debug_i,
                   nonThrVars>>

\* A condition variable may wake a waiter that nobody notified.
SpuriousWakeup ==
    /\ main_pc = "wait"
    /\ cv_waiting
    /\ cv_waiting' = FALSE
    /\ UNCHANGED <<max_analyzing_threads_, analyzing_threads_count_,
                   analyzing_threads_, analyzing_threads_mutex_, main_pc,
                   flos_left, joined, task_pc, task_exit, decrements,
                   notifies, contexts_, debug_i,
                   nonThrVars>>

\* The predicate holds: ++analyzing_threads_count_, emplace_back starts
\* the thread, the return unlocks.
RunAnalysisLaunch ==
    /\ main_pc = "check"
    /\ can_launch
    /\ analyzing_threads_count_' = analyzing_threads_count_ + 1
    /\ analyzing_threads_' =
           Append(analyzing_threads_, Len(analyzing_threads_) + 1)
    /\ task_pc' = [task_pc EXCEPT ![Len(analyzing_threads_) + 1] = "run"]
    /\ analyzing_threads_mutex_' = "free"
    /\ flos_left' = flos_left - 1
    /\ main_pc' = "analyze"
    /\ UNCHANGED <<max_analyzing_threads_, cv_waiting, joined, task_exit,
                   decrements, notifies, contexts_, debug_i,
                   nonThrVars>>

\* The thread function up to the emplace: opt_cov.analyze() fails and it
\* returns early, or analyze_flo has run and the emplace into contexts_
\* is next, or an exception leaves it (find_loops throws) and
\* std::terminate ends the process.
TaskBody(t) ==
    /\ Alive
    /\ task_pc[t] = "run"
    /\ \E how \in {"failed", "analyzed", "threw"} :
          /\ task_exit' = [task_exit EXCEPT ![t] = how]
          /\ IF how = "threw"
             THEN /\ main_pc' = "terminated"
                  /\ task_pc' = task_pc
             ELSE /\ main_pc' = main_pc
                  /\ task_pc' = [task_pc EXCEPT ![t] =
                         IF how = "analyzed" THEN "store"
                         ELSE task_return(how)]
    /\ UNCHANGED <<max_analyzing_threads_, analyzing_threads_count_,
                   analyzing_threads_, analyzing_threads_mutex_, cv_waiting,
                   flos_left, joined, decrements, notifies, contexts_, debug_i,
                   nonThrVars>>

\* The end of the thread function: contexts_.emplace(flo.entry_point, ...)
\* under modify_access_contexts_mutex_, which nothing else takes while
\* analyze runs, then the return.
TaskStore(t) ==
    /\ Alive
    /\ task_pc[t] = "store"
    /\ contexts_' = contexts_ \cup {t}
    /\ task_pc' = [task_pc EXCEPT ![t] = task_return(task_exit[t])]
    /\ UNCHANGED <<max_analyzing_threads_, analyzing_threads_count_,
                   analyzing_threads_, analyzing_threads_mutex_, cv_waiting,
                   main_pc, flos_left, joined, task_exit, decrements,
                   notifies, debug_i, nonThrVars>>

\* The scope guard: std::scoped_lock notify_guard(analyzing_threads_mutex_).
TaskGuardLock(t) ==
    /\ Alive
    /\ task_pc[t] = "guard"
    /\ analyzing_threads_mutex_ = "free"
    /\ analyzing_threads_mutex_' = "task"
    /\ task_pc' = [task_pc EXCEPT ![t] = "locked"]
    /\ UNCHANGED <<max_analyzing_threads_, analyzing_threads_count_,
                   analyzing_threads_, cv_waiting, main_pc, flos_left,
                   joined, task_exit, decrements, notifies, contexts_, debug_i,
                   nonThrVars>>

\* The scope guard: --analyzing_threads_count_.
TaskDecrement(t) ==
    /\ Alive
    /\ task_pc[t] = "locked"
    /\ analyzing_threads_count_' = analyzing_threads_count_ - 1
    /\ decrements' = [decrements EXCEPT ![t] = @ + 1]
    /\ task_pc' = [task_pc EXCEPT ![t] = "notify"]
    /\ UNCHANGED <<max_analyzing_threads_, analyzing_threads_,
                   analyzing_threads_mutex_, cv_waiting, main_pc, flos_left,
                   joined, task_exit, notifies, contexts_, debug_i,
                   nonThrVars>>

\* The scope guard: notify_all, unlock; the thread ends.
TaskNotify(t) ==
    /\ Alive
    /\ task_pc[t] = "notify"
    /\ cv_waiting' = notify_all(cv_waiting)
    /\ notifies' = [notifies EXCEPT ![t] = @ + 1]
    /\ analyzing_threads_mutex_' = "free"
    /\ task_pc' = [task_pc EXCEPT ![t] = "exited"]
    /\ UNCHANGED <<max_analyzing_threads_, analyzing_threads_count_,
                   analyzing_threads_, main_pc, flos_left, joined, task_exit,
                   decrements, contexts_, debug_i,
                   nonThrVars>>

\* wait_for_analysis: join the threads in order, then clear the vector.
Join ==
    /\ main_pc = "join"
    /\ IF joined < Len(analyzing_threads_)
       THEN /\ join(analyzing_threads_[joined + 1])
            /\ joined' = joined + 1
            /\ UNCHANGED <<analyzing_threads_, main_pc>>
       ELSE /\ analyzing_threads_' = << >>
            /\ joined' = 0
            /\ main_pc' = "returned"
    /\ UNCHANGED <<max_analyzing_threads_, analyzing_threads_count_,
                   analyzing_threads_mutex_, cv_waiting, flos_left, task_pc,
                   task_exit, decrements, notifies, contexts_, debug_i,
                   nonThrVars>>

\* Recontex::debug after analyze has returned: one round of its loop over
\* reflo_.get_flos(); get_contexts(*flo) is called for every flo, and
\* the exception of contexts_.at leaves debug.
Debug ==
    /\ main_pc = "returned"
    /\ debug_i < Cardinality(flos_analyzed)
    /\ IF get_contexts_throws(debug_i + 1)
       THEN /\ main_pc' = "out_of_range"
            /\ UNCHANGED debug_i
       ELSE /\ debug_i' = debug_i + 1
            /\ UNCHANGED main_pc
    /\ UNCHANGED <<max_analyzing_threads_, analyzing_threads_count_,
                   analyzing_threads_, analyzing_threads_mutex_, cv_waiting,
                   flos_left, joined, task_pc, task_exit, decrements,
                   notifies, contexts_, nonThrVars>>

\* main: recontex.analyze() has returned and restruc.analyze() is called.
RestrucAnalyze ==
    /\ main_pc = "returned"
    /\ main_pc' = "restruc"
    /\ UNCHANGED <<max_analyzing_threads_, analyzing_threads_count_,
                   analyzing_threads_, analyzing_threads_mutex_, cv_waiting,
                   flos_left, joined, task_pc, task_exit, decrements,
                   notifies, contexts_, debug_i, nonThrVars>>

NextThr ==
    \/ RefloAnalyze
    \/ AnalyzeNext
    \/ RunAnalysisLock
    \/ RunAnalysisWait
    \/ SpuriousWakeup
    \/ RunAnalysisLaunch
    \/ \E t \in Tasks : TaskBody(t)
    \/ \E t \in Tasks : TaskStore(t)
    \/ \E t \in Tasks : TaskGuardLock(t)
    \/ \E t \in Tasks : TaskDecrement(t)
    \/ \E t \in Tasks : TaskNotify(t)
    \/ Join
    \/ Debug
    \/ RestrucAnalyze

InitSpecThr ==
    IdleReflo /\ IdleCov /\ IdleCtx /\ IdleStruc /\ InitThr /\ IdlePE

SpecThr == InitSpecThr /\ [][NextThr]_vars

\* Every thread that can take a step takes one; a thread that finds the
\* mutex free again and again gets it; nothing makes a spurious wake-up
\* happen.
FairSpecThr ==
    /\ SpecThr
    /\ WF_vars(RefloAnalyze)
    /\ WF_vars(AnalyzeNext)
    /\ SF_vars(RunAnalysisLock)
    /\ WF_vars(RunAnalysisWait)
    /\ WF_vars(RunAnalysisLaunch)
    /\ WF_vars(Join)
    /\ \A t \in Tasks :
          /\ WF_vars(TaskBody(t))
          /\ WF_vars(TaskStore(t))
          /\ SF_vars(TaskGuardLock(t))
          /\ WF_vars(TaskDecrement(t))
          /\ WF_vars(TaskNotify(t))

\* ------------------------------------------------------------------------
\* PE: the section table and the address translation
\* ------------------------------------------------------------------------

\* An IMAGE_SECTION_HEADER; a section takes as many bytes in the file as in
\* memory.
SectionHeaders ==
    [VirtualAddress : 1..MaxSectionStart,
     PointerToRawData : 1..MaxSectionStart,
     Size : 1..MaxSectionSize]

\* The sections of S in ascending order of the field key (std::sort of the
\* constructor; no two sections share a start).
RECURSIVE sort_sections(_, _)
sort_sections(S, key) ==
    IF S = {} THEN << >>
    ELSE LET first == CHOOSE s \in S : \A t \in S : s[key] <= t[key]
         IN  <<first>> \o sort_sections(S \ {first}, key)

\* std::upper_bound(sections, a, a < section->key): the index of the first
\* section that starts above a, Len + 1 for end().
section_upper_bound(sections, key, a) ==
    IF \E i \in 1..Len(sections) : a < sections[i][key]
    THEN CHOOSE i \in 1..Len(sections) :
            /\ a < sections[i][key]
            /\ \A j \in 1..(i - 1) : ~(a < sections[j][key])
    ELSE Len(sections) + 1

\* The result of a translation: an exception, or the address returned.
Thrown == [threw |-> TRUE, address |-> 0]

Returned(a) == [threw |-> FALSE, address |-> a]

\* virtual_to_raw_address, as the offset of the returned pointer from
\* data().
virtual_to_raw_address(p, va) ==
    LET psection == section_upper_bound(p.sections_by_va_, "VirtualAddress", va)
    IN  IF psection = 1 THEN Thrown
        ELSE LET section == p.sections_by_va_[psection - 1]
             IN  Returned(section.PointerToRawData + va
                            - section.VirtualAddress)

\* raw_to_virtual_address with get_section_by_raw_address, for the pointer
\* data() + raw_address.
raw_to_virtual_address(p, raw_address) ==
    LET psection == section_upper_bound(p.sections_by_raw_data_,
                                        "PointerToRawData", raw_address)
    IN  IF psection = 1 THEN Thrown
        ELSE LET section == p.sections_by_raw_data_[psection - 1]
             IN  Returned(raw_address - section.PointerToRawData
                            + section.VirtualAddress)

\* The section tables a well-formed file can hold: the sections overlap
\* neither in memory nor in the file.
SectionTables ==
    {S \in {{s, t} : s, t \in SectionHeaders} :
        /\ \A s, t \in S :
              s # t =>
                 /\ \/ s.VirtualAddress + s.Size <= t.VirtualAddress
                    \/ t.VirtualAddress + t.Size <= s.VirtualAddress
                 /\ \/ s.PointerToRawData + s.Size <= t.PointerToRawData
                    \/ t.PointerToRawData + t.Size <= s.PointerToRawData}

\* PE::PE: the two sorted vectors of section headers.
InitPE ==
    \E S \in SectionTables :
       pe = [sections_by_va_ |-> sort_sections(S, "VirtualAddress"),
             sections_by_raw_data_ |-> sort_sections(S, "PointerToRawData"),
             op |-> "none", arg |-> 0, result |-> Thrown]
       /\ emu = << >>
       /\ mutators = << >>

VirtualToRawAddress ==
    \E va \in 0..MaxPEAddress :
       /\ pe' = [pe EXCEPT !.op = "virtual_to_raw_address", !.arg = va,
                           !.result = virtual_to_raw_address(pe, va)]
       /\ UNCHANGED <<refloVars, covVars, floVars, ctxVars, strucVars,
                      thrVars, emu, mutators>>

RawToVirtualAddress ==
    \E raw_address \in 0..MaxPEAddress :
       /\ pe' = [pe EXCEPT !.op = "raw_to_virtual_address",
                           !.arg = raw_address,
                           !.result = raw_to_virtual_address(pe, raw_address)]
       /\ UNCHANGED <<refloVars, covVars, floVars, ctxVars, strucVars,
                      thrVars, emu, mutators>>

NextPE ==
    \/ VirtualToRawAddress
    \/ RawToVirtualAddress

InitSpecPE ==
    IdleReflo /\ IdleCov /\ IdleCtx /\ IdleStruc /\ IdleThr /\ InitPE

SpecPE == InitSpecPE /\ [][NextPE]_vars

\* ------------------------------------------------------------------------
\* Recontex::emulate on one context
\* ------------------------------------------------------------------------

\* The memory operand of the machine: the slot the first PUSH writes when
\* RSP starts at the lower of its two values.
EmuMemory == stack_slot * (MaxEmulated - 1)

\* What emulate is called for: PUSH of a register or an immediate, POP into
\* a register, XOR of a register or memory with a register or an
\* immediate, and CALL.  operand2 is the second operand where there is one.
StackInstructions ==
    [mnemonic : {"PUSH"},
     operand : {RegisterOperand(r) : r \in register_map}
                 \cup {ImmediateOperand(i) : i \in 0..MaxValue},
     operand2 : {ImmediateOperand(0)}]
      \cup [mnemonic : {"POP"},
            operand : {RegisterOperand(r) : r \in register_map},
            operand2 : {ImmediateOperand(0)}]
      \cup [mnemonic : {"XOR"},
            operand : {RegisterOperand(r) : r \in register_map}
                        \cup {MemoryOperand(EmuMemory)},
            operand2 : {RegisterOperand(r) : r \in register_map}
                         \cup {ImmediateOperand(i) : i \in 0..MaxValue}]
      \cup [mnemonic : {"CALL"},
            operand : {ImmediateOperand(0)},
            operand2 : {ImmediateOperand(0)}]

\* The opening record of the history.
NoInstruction ==
    [mnemonic |-> "none", address |-> 0, operand |-> ImmediateOperand(0),
     operand2 |-> ImmediateOperand(0), rsp |-> {}, value |-> {},
     value2 |-> {}, top |-> {}]

\* The context of make_flo_initial_contexts, with RSP concrete and so high
\* that MaxEmulated pushes stay above 0, or a context whose RSP is
\* symbolic; the other registers are symbolic or hold a value.
InitEmu ==
    /\ GLOBAL_ID = 1
    /\ writes = 0
    /\ written = 0
    /\ calls = (1 :> 0)
    /\ emu = [last |-> NoInstruction, prev |-> NoInstruction]
    /\ \E stack \in {0, 1, 2}, values \in [register_map \ {RSP} -> {0, 1, 2}] :
          heap = LET root == Context_root(<< >>, 1, nullptr, 0)
                     h1 == IF stack = 0 THEN root
                           ELSE set_register(root, 1, RSP,
                                    make_value(1, stack_slot
                                                    * (MaxEmulated + stack - 1)))
                     set_values[r \in 1..(MaxRegs + 1)] ==
                         IF r = 1 THEN h1
                         ELSE IF r - 1 = RSP \/ values[r - 1] = 0
                         THEN set_values[r - 1]
                         ELSE set_register(set_values[r - 1], 1, r - 1,
                                           make_value(1, values[r - 1] - 1))
                 IN  set_values[MaxRegs + 1]

\* The value a Value stands for, without the instruction it comes from.
value_of(values) == {[symbolic |-> v.symbolic, v |-> v.v] : v \in values}

\* emulate(address, instruction, context) on the context 1.
Emulate ==
    /\ writes < MaxEmulated
    /\ \E ins \in StackInstructions, address \in 1..MaxSource :
          /\ heap' = emulate(heap, 1, address, ins)
          /\ emu' = [last |->
                        [mnemonic |-> ins.mnemonic,
                         address  |-> address,
                         operand  |-> ins.operand,
                         operand2 |-> ins.operand2,
                         value2   |-> value_of({get_operand(heap, 1, ins.operand2,
                                                            address).value}),
                         rsp      |-> value_of(get_register(heap, heap[1], RSP)),
                         value    |-> value_of({get_operand(heap, 1, ins.operand,
                                                            address).value}),
                         top      |-> LET rsp == get_register(heap, heap[1], RSP)
                                      IN  IF rsp = {} THEN {}
                                          ELSE value_of(get_memory(heap, heap[1],
                                                   (CHOOSE v \in rsp : TRUE).v))],
                      prev |-> emu.last]
    /\ writes' = writes + 1
    /\ written' = 1
    /\ UNCHANGED <<GLOBAL_ID, calls>>
    /\ UNCHANGED <<refloVars, covVars, floVars, strucVars, thrVars, pe,
                   mutators>>

NextEmu == Emulate

InitSpecEmu ==
    /\ IdleReflo /\ IdleCov /\ IdleStruc /\ IdleThr
    /\ pe = << >> /\ mutators = << >>
    /\ InitEmu

SpecEmu == InitSpecEmu /\ [][NextEmu]_vars

\* ------------------------------------------------------------------------
\* Properties of the control-flow reconstruction
\* ------------------------------------------------------------------------

\* C1: the analysis terminates for every image: every create_function loop
\* exits and the worklist drains, so analyze() returns.
C1_AnalysisTerminates == <>(pc = "done")

\* C2: every discovered function is analyzed exactly once: an entry point
\* is pushed to unanalyzed_functions_ at most once, it is pushed exactly
\* when functions_ holds its cfgraph, and the worklist never holds an entry
\* point twice.
C2_AnalyzedOnce ==
    /\ \A a \in Addr : pushes[a] = (IF a \in DOMAIN functions_ THEN 1 ELSE 0)
    /\ \A i, j \in 1..Len(unanalyzed_functions_) :
          unanalyzed_functions_[i] = unanalyzed_functions_[j] => i = j
    /\ \A a \in DOMAIN functions_ : functions_[a].entry_point = a

\* The analysis has finished and some function was the destination of two
\* different calls or outer jumps, one of them from the function itself.
C2_Witness ==
    /\ pc = "done"
    /\ \E f, g \in DOMAIN functions_ : \E d \in DOMAIN functions_ :
          /\ \E e \in DOMAIN functions_[f].calls : e[2] = d
          /\ \E e \in DOMAIN functions_[g].outer_jumps : e[1] = d
          /\ \E e \in DOMAIN functions_[d].calls : e[2] = d
          /\ pushes[d] = 1

\* C3: in every finished function every inner jump leads to an instruction
\* of that function.
C3_InnerJumpsInside ==
    \A f \in DOMAIN functions_ :
       \A e \in DOMAIN functions_[f].inner_jumps :
          e[1] \in functions_[f].instructions

\* ------------------------------------------------------------------------
\* Properties of OptimalCoverage
\* ------------------------------------------------------------------------

\* The path number i traverses the edge e: dfs was in a branch along e
\* when it snapshotted the path.
traverses(i, e) ==
    \E t \in trails[i] : Edge(nodes_[t[1]].source, nodes_[t[1]].branches[t[2]].branch) = e

\* No jump of the flo has its destination inside the flo.
no_inside_jump(f) ==
    \A a \in 1..Len(f) : Flo_is_any_jump(f[a]) => ~Flo_is_inside(f, f[a].dst)

\* C7: when OptimalCoverage::analyze has succeeded, every edge of the node
\* graph that is reachable from the entry node and not useless is traversed
\* by at least one of the paths.
C7_EveryEdgeTraversed ==
    cov_pc = "done" =>
        \A e \in all_edges(nodes_) :
            (e[1] \in DOMAIN nodes_order_ /\ e \notin useless_edges_)
                => \E i \in 1..Len(paths_) : traverses(i, e)

\* C8: the set of paths is minimal: whichever path is removed from it,
\* some branch is covered by no path that is left.
C8_PathsMinimal ==
    (cov_pc = "done" /\ Len(paths_) > 1) =>
        \A i \in 1..Len(paths_) :
            \E t \in trails[i] :
                \A j \in 1..Len(paths_) : j # i => t \notin trails[j]

\* C9: build_paths terminates: a loop edge is descended through only
\* while it is not on the dfs stack, every other descent goes up in the
\* topological order, so the depth of the stack is bounded by the graph.
C9_DescentBounded ==
    cov_pc = "dfs" =>
        /\ \A i, j \in 1..Len(dfs_stack) :
              (/\ i < j
               /\ dfs_stack[i].loop
               /\ dfs_stack[j].loop) => frame_edge(dfs_stack[i]) # frame_edge(dfs_stack[j])
        /\ visited_loops = {frame_edge(dfs_stack[i]) :
                               i \in {j \in 1..Len(dfs_stack) : dfs_stack[j].loop}}
        /\ \A i \in 1..(Len(dfs_stack) - 1) :
              ~dfs_stack[i].loop =>
                  nodes_order_[dfs_stack[i + 1].v] > nodes_order_[dfs_stack[i].v]
        /\ Len(dfs_stack) <= (Cardinality(loops_) + 1) * Cardinality(DOMAIN nodes_order_)

\* build_paths has returned on a graph with a self loop and with two
\* back-edges into the same node.
C9_Witness ==
    /\ cov_pc = "done"
    /\ \E e \in loops_ : e[1] = e[2]
    /\ \E e1, e2 \in loops_ : e1 # e2 /\ e1[2] = e2[2]
    /\ Len(paths_) > 1

\* C10: a flo without a jump to its inside, once OptimalCoverage::analyze
\* is over, has exactly one path, and the path is empty.
C10_OneEmptyPath ==
    (cov_pc \in {"done", "failed", "threw"} /\ no_inside_jump(flo))
        => paths_ = << << >> >>

\* C10 amended: a flo without a jump to its inside on which analyze
\* succeeds has exactly one path, and the path is empty.
C10_OneEmptyPathOnSuccess ==
    (cov_pc \in {"done", "threw"} /\ no_inside_jump(flo))
        => (cov_pc = "done" /\ paths_ = << << >> >>)

\* analyze has succeeded on a flo with a RET and a jump to the outside,
\* none to the inside.
C10_Witness ==
    /\ cov_pc = "done"
    /\ no_inside_jump(flo)
    /\ \E a \in 1..Len(flo) : flo[a].mnemonic = "RET"
    /\ \E a \in 1..Len(flo) : Flo_is_any_jump(flo[a])
    /\ ends_ # {}

\* ------------------------------------------------------------------------
\* Properties of Context
\* ------------------------------------------------------------------------

\* What the context number c reads: every tracked register, every address.
reads(h, c) ==
    [registers |-> [reg \in register_map |-> get_register(h, h[c], reg)],
     memory    |-> [a \in MemoryAddresses |-> get_memory(h, h[c], a)]]

same_register_file(h, c1, c2) ==
    \A reg \in register_map : get_register(h, h[c1], reg) = get_register(h, h[c2], reg)

C6_ChildWritesInvisible ==
    [][/\ \A p \in DOMAIN heap : p # written' => reads(heap', p) = reads(heap, p)
       /\ \A c \in DOMAIN heap' :
             heap'[c].parent # nullptr =>
                /\ \A reg \in register_map \ DOMAIN heap'[c].registers_ :
                      get_register(heap', heap'[c], reg)
                          = get_register(heap', heap'[heap'[c].parent], reg)
                /\ \A a \in MemoryAddresses \ DOMAIN heap'[c].memory_ :
                      get_memory(heap', heap'[c], a)
                          = get_memory(heap', heap'[heap'[c].parent], a)]_vars

\* A child has written a register and an address, reads another register
\* from its parent, and its parent reads other values than the child does.
C6_Witness ==
    \E c \in DOMAIN heap :
        /\ heap[c].parent # nullptr
        /\ DOMAIN heap[c].registers_ # {}
        /\ DOMAIN heap[c].memory_ # {}
        /\ register_map \ DOMAIN heap[c].registers_ # {}
        /\ \E reg \in DOMAIN heap[c].registers_ :
              get_register(heap, heap[c], reg)
                  # get_register(heap, heap[heap[c].parent], reg)
        /\ \E a \in DOMAIN heap[c].memory_ :
              get_memory(heap, heap[c], a)
                  # get_memory(heap, heap[heap[c].parent], a)

\* ------------------------------------------------------------------------
\* Properties of analyze_flo
\* ------------------------------------------------------------------------

\* C4: after a flo is analyzed, no two contexts stored at an address of
\* its context multimap have equal hash.
C4_NoEqualHashAtAddress ==
    cov_pc = "analyzed" =>
        \A a \in DOMAIN flo_contexts :
            \A i, j \in 1..Len(flo_contexts[a]) :
                i # j => heap[flo_contexts[a][i]].hash_ # heap[flo_contexts[a][j]].hash_

\* ------------------------------------------------------------------------
\* Properties of Struc
\* ------------------------------------------------------------------------

\* The offsets the stored fields of S cover: every element of every field.
covered_offsets(S) ==
    UNION {{S.fields_[i].offset + k * S.fields_[i].field.size_ :
               k \in 0..(S.fields_[i].field.count_ - 1)} :
           i \in 1..Len(S.fields_)}

\* C11: after any sequence of add_*_field and merge calls, field_set_ of
\* every Struc is exactly the set of offsets its stored fields cover.
C11_FieldSetExact ==
    \A s \in DOMAIN strucs : strucs[s].field_set_ = covered_offsets(strucs[s])

\* C12: a Struc with at least two fields has get_size() at least the
\* largest end (offset + size * count) of its stored fields.
C12_SizeCoversFields ==
    \A s \in DOMAIN strucs :
        Len(strucs[s].fields_) >= 2 =>
            \A i \in 1..Len(strucs[s].fields_) :
                get_size(strucs[s])
                    >= strucs[s].fields_[i].offset
                         + strucs[s].fields_[i].field.size_
                             * strucs[s].fields_[i].field.count_

\* S stores a field of one of the types at the offset with the size.
stores(S, types, offset, size) ==
    \E i \in 1..Len(S.fields_) :
        /\ S.fields_[i].offset = offset
        /\ S.fields_[i].field.size_ = size
        /\ S.fields_[i].field.type_ \in types

\* The offset is an element of an array field of the type and the size
\* that S stores at a lower offset.
element_of(S, type, offset, size) ==
    \E i \in 1..Len(S.fields_) :
        /\ S.fields_[i].field.type_ = type
        /\ S.fields_[i].field.size_ = size
        /\ S.fields_[i].offset < offset
        /\ offset \in {S.fields_[i].offset + k * size :
                          k \in 0..(S.fields_[i].field.count_ - 1)}

\* C13 as stated: add_int_field(o, s) followed by add_float_field(o, s)
\* leaves a Float field of size s stored at o and no Int or UInt field of
\* size s at o.
C13_FloatWins ==
    (last_op.op = "add_float_field" /\ last_op.after_int) =>
        /\ stores(strucs[last_op.struc], {"Float"}, last_op.offset,
                  last_op.size)
        /\ ~stores(strucs[last_op.struc], {"Int", "UInt"}, last_op.offset,
                   last_op.size)

\* C13, amended: add_int_field(o, s) followed by add_float_field(o, s)
\* leaves no Int or UInt field of size s at o, and leaves o a Float of size
\* s: a Float field of size s is stored at o, or o is an element of a Float
\* array field of size s stored at a lower offset.
C13_FloatWinsOrCovers ==
    (last_op.op = "add_float_field" /\ last_op.after_int) =>
        /\ \/ stores(strucs[last_op.struc], {"Float"}, last_op.offset,
                     last_op.size)
           \/ element_of(strucs[last_op.struc], "Float", last_op.offset,
                         last_op.size)
        /\ ~stores(strucs[last_op.struc], {"Int", "UInt"}, last_op.offset,
                   last_op.size)

\* add_int_field stored an Int field and add_float_field(o, s) followed.
C13_Witness ==
    /\ last_op.op = "add_float_field"
    /\ last_op.after_int
    /\ last_op.over_int8
    /\ stores(strucs[last_op.struc], {"Float"}, last_op.offset, last_op.size)

\* C14 as stated: on a Struc that holds an 8-byte Int or UInt field at o,
\* add_pointer_field(o) removes that field and leaves a Pointer field
\* stored at o.
C14_PointerOverrides ==
    (last_op.op = "add_pointer_field" /\ last_op.over_int8) =>
        /\ stores(strucs[last_op.struc], {"Pointer"}, last_op.offset, 8)
        /\ ~stores(strucs[last_op.struc], {"Int", "UInt"}, last_op.offset, 8)

\* C14, amended: on a Struc that holds an 8-byte Int or UInt field at o,
\* add_pointer_field(o) removes that field and leaves o a Pointer: a
\* Pointer field is stored at o, or o is an element of a Pointer array
\* field stored at a lower offset.
C14_PointerOverridesOrCovers ==
    (last_op.op = "add_pointer_field" /\ last_op.over_int8) =>
        /\ \/ stores(strucs[last_op.struc], {"Pointer"}, last_op.offset, 8)
           \/ element_of(strucs[last_op.struc], "Pointer", last_op.offset, 8)
        /\ ~stores(strucs[last_op.struc], {"Int", "UInt"}, last_op.offset, 8)

\* add_pointer_field was called where an 8-byte Int or UInt field was
\* stored, and a Pointer field is stored there now.
C14_Witness ==
    /\ last_op.op = "add_pointer_field"
    /\ last_op.over_int8
    /\ stores(strucs[last_op.struc], {"Pointer"}, last_op.offset, 8)

\* C15: merging is idempotent: after dst.merge(src) has returned, a second
\* dst.merge(src) returns and leaves fields_ and field_set_ of every Struc
\* as they are.
C15_MergeIdempotent ==
    (last_op.op = "merge" /\ struc_pc = "run") =>
        merge(strucs, last_op.struc, last_op.src, {})
            = [strucs |-> strucs, status |-> "ok"]

\* The fields of S as the set of their offsets, types, sizes and counts.
field_values(S) ==
    {<<S.fields_[i].offset, S.fields_[i].field.type_,
       S.fields_[i].field.size_, S.fields_[i].field.count_>> :
        i \in 1..Len(S.fields_)}

\* C16: merging is symmetric: for two Strucs a and b, a after a.merge(b)
\* has fields of the same offsets, types, sizes and counts as b after
\* b.merge(a).
C16_MergeSymmetric ==
    struc_pc = "run" =>
        \A a \in DOMAIN strucs, b \in DOMAIN strucs :
            (/\ a # b
             /\ merge(strucs, a, b, {}).status = "ok"
             /\ merge(strucs, b, a, {}).status = "ok")
                => field_values(merge(strucs, a, b, {}).strucs[a])
                     = field_values(merge(strucs, b, a, {}).strucs[b])

\* The bytes of an entry; a field of size 0 lies at its offset.
extent(e) ==
    {e.offset} \cup (e.offset..(e.offset + e.field.size_ * e.field.count_ - 1))

\* How often the sequence holds an entry of the offset, type, size and
\* count of e.
occurrences(fields, e) ==
    Cardinality({i \in 1..Len(fields) :
                    /\ fields[i].offset = e.offset
                    /\ fields[i].field.type_ = e.field.type_
                    /\ fields[i].field.size_ = e.field.size_
                    /\ fields[i].field.count_ = e.field.count_})

\* C17: after dst.merge(src) where no field of src overlaps a field of
\* dst, dst holds exactly its previous fields plus, for every field of
\* src, a field of the same offset, type, size and count.
C17_MergeDisjointIsUnion ==
    [][ (/\ last_op'.op = "merge"
         /\ struc_ops' = struc_ops + 1
         /\ struc_pc' = "run"
         /\ last_op'.struc # last_op'.src
         /\ \A i \in 1..Len(strucs[last_op'.struc].fields_),
               j \in 1..Len(strucs[last_op'.src].fields_) :
               extent(strucs[last_op'.struc].fields_[i])
                   \cap extent(strucs[last_op'.src].fields_[j]) = {})
        => LET dst == strucs[last_op'.struc].fields_
               src == strucs[last_op'.src].fields_
               new == strucs'[last_op'.struc].fields_
           IN  /\ Len(new) = Len(dst) + Len(src)
               /\ \A i \in 1..Len(new) :
                     occurrences(new, new[i])
                         = occurrences(dst, new[i]) + occurrences(src, new[i])
      ]_vars

\* ------------------------------------------------------------------------
\* Properties of run_analysis and wait_for_analysis
\* ------------------------------------------------------------------------

\* The tasks that are launched and have not released their slot.
holding_slot == {t \in DOMAIN task_pc : task_pc[t] # "none" /\ decrements[t] = 0}

\* C18: at every moment analyzing_threads_count_ is the number of launched
\* tasks that have not yet released their slot, and it is at most
\* max_analyzing_threads_.
C18_CountAtMostMax ==
    /\ analyzing_threads_count_ = Cardinality(holding_slot)
    /\ analyzing_threads_count_ <= max_analyzing_threads_

\* run_analysis is blocked because every slot is taken.
C18_Witness ==
    /\ main_pc = "wait"
    /\ max_analyzing_threads_ >= 1
    /\ analyzing_threads_count_ = max_analyzing_threads_

\* C19: if max_analyzing_threads_ >= 1 and every task ends (no task ends
\* the process by an exception), every run_analysis call launches its task
\* and analyze returns.
C19_AnalyzeReturns ==
    (max_analyzing_threads_ >= 1) =>
        <>(main_pc = "terminated"
             \/ (main_pc = "returned" /\ flos_left = 0))

\* analyze has returned after run_analysis had to wait for a slot: more
\* tasks have run than there are slots.
C19_Witness ==
    /\ main_pc = "returned"
    /\ max_analyzing_threads_ >= 1
    /\ Cardinality({t \in DOMAIN task_pc : task_pc[t] = "exited"})
           > max_analyzing_threads_

\* C20: every launched task decrements analyzing_threads_count_ at most
\* once; a task whose thread function has returned, early or not, has
\* decremented it once and has called notify_all; after wait_for_analysis
\* has returned the counter is 0.
C20_EveryExitReleases ==
    /\ \A t \in DOMAIN task_pc :
          /\ decrements[t] <= 1
          /\ notifies[t] <= decrements[t]
          /\ task_pc[t] = "none" => decrements[t] = 0
          /\ task_pc[t] = "exited" => decrements[t] = 1 /\ notifies[t] = 1
    /\ main_pc = "returned" =>
          /\ analyzing_threads_count_ = 0
          /\ \A t \in DOMAIN task_pc :
                task_pc[t] # "none" => decrements[t] = 1 /\ notifies[t] = 1

\* wait_for_analysis has returned, one task took the early return and
\* another finished its analysis.
C20_Witness ==
    /\ main_pc = "returned"
    /\ analyzing_threads_count_ = 0
    /\ \E t \in DOMAIN task_pc : task_exit[t] = "failed" /\ decrements[t] = 1
    /\ \E t \in DOMAIN task_pc : task_exit[t] = "analyzed" /\ decrements[t] = 1

\* The byte ranges of two entries of fields_ overlap.
ranges_overlap(e, f) ==
    /\ e.offset < f.offset + f.field.size_ * f.field.count_
    /\ f.offset < e.offset + e.field.size_ * e.field.count_

\* The block of the print output that holds the entry i of fields.
block_of(fields, i) ==
    LET blocks == print(fields, 1)
    IN  CHOOSE b \in 1..Len(blocks) :
           /\ blocks[b].first <= i
           /\ i < blocks[b].first + blocks[b].union_field_count

\* C24: in the print output any two stored fields whose byte ranges
\* overlap are emitted in the same union block, so a field that is emitted
\* as a plain member overlaps no other field.
C24_OverlappingFieldsShareUnion ==
    \A s \in DOMAIN strucs :
       \A i, j \in 1..Len(strucs[s].fields_) :
          (i # j /\ ranges_overlap(strucs[s].fields_[i], strucs[s].fields_[j]))
             => block_of(strucs[s].fields_, i) = block_of(strucs[s].fields_, j)

\* C25: the traversal of analyze_flo never violates one of its asserts,
\* whatever path set OptimalCoverage hands over: the paths of a group wait
\* at the same next jump, and the jump met is the one the paths wait at.
C25_AssertsHold == assertion = "none"

\* C26: when resolve_incomplete_cfgraph leaves its inner loop, it merges
\* the sub-cfgraph only if the first instruction of the sub-cfgraph comes
\* right after the last instruction of the outer cfgraph; in every other
\* case the outer cfgraph keeps its instructions and the jumps to
\* unknown_jump_dst end up in outer_jumps.
C26_MergeOnlyContiguous ==
    [][pc = "sub" /\ pc' # "sub" =>
          IF /\ new_cfgraph.instructions # {}
             /\ SetMin(new_cfgraph.instructions)
                   = SetMax(cfgraph.instructions) + InstrLen
          THEN pc' = "fill"
          ELSE /\ pc' = "resolve"
               /\ cfgraph'.instructions = cfgraph.instructions
               /\ unknown_jump_dst \in MMKeys(cfgraph'.outer_jumps)
               /\ unknown_jump_dst
                     \notin MMKeys(cfgraph'.inner_jumps)
                               \cup MMKeys(cfgraph'.unknown_jumps)]_vars

\* The records of the jump at src in the cfgraph g: the class, the entry
\* and its ordinal among the equal entries of the class.
jump_records(g, src) ==
    {<<class, e, n>> \in
        ({"Inner"} \X (DOMAIN g.inner_jumps) \X (1..MaxDup))
          \cup ({"Outer"} \X (DOMAIN g.outer_jumps) \X (1..MaxDup))
          \cup ({"Unknown"} \X (DOMAIN g.unknown_jumps) \X (1..MaxDup)) :
        /\ e[2] = src
        /\ n <= (CASE class = "Inner" -> g.inner_jumps[e]
                   [] class = "Outer" -> g.outer_jumps[e]
                   [] class = "Unknown" -> g.unknown_jumps[e])}

\* The cfgraphs alive: the finished ones, the one create_function fills
\* and the sub-cfgraph of resolve_incomplete_cfgraph.
cfgraphs_alive ==
    {functions_[f] : f \in DOMAIN functions_}
      \cup (IF pc \in {"fill", "resolve", "sub"} THEN {cfgraph} ELSE {})
      \cup (IF pc = "sub" THEN {new_cfgraph} ELSE {})

\* C27: in every state every jump instruction a cfgraph has decoded and
\* analyzed has exactly one record in the union of the cfgraph's
\* inner_jumps, outer_jumps and unknown_jumps.
C27_JumpRecordedOnce ==
    \A g \in cfgraphs_alive :
       \A a \in g.instructions :
          image[a].mnemonic \in {"JMP", "JCC"}
             => Cardinality(jump_records(g, a)) = 1

\* The addresses that a path of at least one edge of E leads to from an
\* address of S.
RECURSIVE reached_from(_, _)
reached_from(E, S) ==
    LET next == S \cup {e[2] : e \in {d \in E : d[1] \in S}}
    IN  IF next = S THEN {e[2] : e \in {d \in E : d[1] \in S}}
        ELSE reached_from(E, next)

\* C28: after a successful analyze, useless_edges_ is exactly the set of
\* the edges (u, v) of the node graph for which a path from u to v exists
\* that uses no loop edge and does not use the edge itself.
C28_UselessEdgesExact ==
    cov_pc \in {"dfs", "done", "analyze_flo", "analyzed", "crashed"} =>
        useless_edges_ =
            {e \in all_edges(nodes_) :
                e[2] \in reached_from((all_edges(nodes_) \ loops_) \ {e},
                                      {e[1]})}

\* analyze has succeeded, an edge is useless, and the search for another
\* edge (u, v) was pruned at a successor of u that is ordered after v.
C28_Witness ==
    /\ cov_pc = "done"
    /\ useless_edges_ # {}
    /\ \E e \in all_edges(nodes_) \ useless_edges_ :
          \E d \in all_edges(nodes_) \ loops_ :
             /\ d[1] = e[1]
             /\ nodes_order_[d[2]] > nodes_order_[e[2]]

\* C29: OptimalCoverage::analyze throws no exception, also on a flo whose
\* node graph holds nodes with branches that no path from the entry point
\* reaches.
C29_AnalyzeCompletes == cov_pc # "threw"

\* ------------------------------------------------------------------------
\* Properties of the phases of main
\* ------------------------------------------------------------------------

\* C21: the phases are serial. While main is in Reflo::analyze no Recontex
\* task exists and contexts_ is empty; once Recontex::analyze has returned
\* every flo was handed to a task, every task's thread function has
\* returned, and every task that finished its analysis has stored its
\* contexts, so that no task runs or writes contexts_ while
\* Restruc::analyze runs.
C21_PhasesSerial ==
    /\ main_pc = "reflo" => flos_analyzed = {} /\ contexts_ = {}
    /\ main_pc \in {"returned", "out_of_range", "restruc"} =>
          /\ flos_left = 0
          /\ \A t \in flos_analyzed :
                /\ task_pc[t] = "exited"
                /\ task_exit[t] = "analyzed" => t \in contexts_

\* Restruc::analyze runs after more tasks have run than there are slots,
\* and two of them have stored contexts.
C21_Witness ==
    /\ main_pc = "restruc"
    /\ Cardinality(flos_analyzed) > max_analyzing_threads_
    /\ Cardinality(contexts_) >= 2

\* C22: a flo whose OptimalCoverage::analyze failed is abandoned alone:
\* the later steps that call get_contexts for every flo complete without
\* an exception.
C22_AbandonedFloIsHarmless == main_pc # "out_of_range"

\* ------------------------------------------------------------------------
\* Properties of the PE address translation
\* ------------------------------------------------------------------------

\* The address a lies in no section, by the field key of the section start.
outside_all_sections(sections, key, a) ==
    \A i \in 1..Len(sections) :
       ~(sections[i][key] <= a /\ a < sections[i][key] + sections[i].Size)

\* C23: virtual_to_raw_address and raw_to_virtual_address throw for every
\* address that lies outside all sections: below the first section, in a
\* gap between two sections, or past the end of the last one.
C23_ThrowsOutsideSections ==
    /\ (/\ pe.op = "virtual_to_raw_address"
        /\ outside_all_sections(pe.sections_by_va_, "VirtualAddress", pe.arg))
       => pe.result.threw
    /\ (/\ pe.op = "raw_to_virtual_address"
        /\ outside_all_sections(pe.sections_by_raw_data_, "PointerToRawData",
                                pe.arg))
       => pe.result.threw

\* ------------------------------------------------------------------------
\* Properties of the emulation
\* ------------------------------------------------------------------------

\* What the register reg of the context 1 holds.
register_value(reg) == value_of(get_register(heap, heap[1], reg))

\* C30: when RSP is concrete, POP r leaves in r the value that memory held
\* at the old RSP, and RSP is the old RSP plus 8; when the POP comes right
\* after a PUSH x made with RSP concrete, r holds the value x had and RSP
\* is what it was before the PUSH.  (r is not RSP.)
C30_PopReadsStack ==
    (/\ emu.last.mnemonic = "POP"
     /\ emu.last.operand.reg # RSP
     /\ \E v \in emu.last.rsp : ~v.symbolic)
    => /\ \A v \in emu.last.rsp :
             register_value(RSP)
                = {[symbolic |-> FALSE, v |-> uintptr_t(v.v + stack_slot)]}
       /\ emu.last.top # {} =>
             register_value(emu.last.operand.reg) = emu.last.top
       /\ (/\ emu.prev.mnemonic = "PUSH"
           /\ \E v \in emu.prev.rsp : ~v.symbolic)
          => /\ register_value(emu.last.operand.reg) = emu.prev.value
             /\ register_value(RSP) = emu.prev.rsp

\* What the operand reads in the context 1: a register or memory.
operand_value(operand) ==
    IF operand.type = "REGISTER" THEN register_value(operand.reg)
    ELSE value_of(get_memory(heap, heap[1], operand.imm))

\* The ordinary rule for XOR on the values the operands had.
xor_of(values, values2) ==
    {[symbolic |-> r.symbolic, v |-> r.v] :
        r \in {emulate_instruction_helper([source |-> 1] @@ d, [source |-> 1] @@ s) :
                  d \in values, s \in values2}}

\* C31: after XOR of a register with itself the register reads concrete 0,
\* and still does after a PUSH that follows; after an XOR whose operands
\* are not both registers the destination holds what the ordinary rule
\* gives for the values the operands had.
C31_XorZeroOnlySameRegister ==
    /\ (/\ emu.last.mnemonic = "XOR"
        /\ emu.last.operand.type = "REGISTER"
        /\ emu.last.operand2 = emu.last.operand)
       => register_value(emu.last.operand.reg)
             = {[symbolic |-> FALSE, v |-> 0]}
    /\ (/\ emu.prev.mnemonic = "XOR"
        /\ emu.prev.operand.type = "REGISTER"
        /\ emu.prev.operand2 = emu.prev.operand
        /\ emu.prev.operand.reg # RSP
        /\ emu.last.mnemonic = "PUSH")
       => register_value(emu.prev.operand.reg)
             = {[symbolic |-> FALSE, v |-> 0]}
    /\ (/\ emu.last.mnemonic = "XOR"
        /\ \/ emu.last.operand.type # "REGISTER"
           \/ emu.last.operand2.type # "REGISTER")
       => operand_value(emu.last.operand)
             = xor_of(emu.last.value, emu.last.value2)

\* C32: a CALL leaves the volatile registers symbolic, with the CALL as
\* their source, and leaves RSP, the other registers that are not volatile
\* and the memory of the context as they were.
C32_CallResetsVolatileOnly ==
    [][(writes' # writes /\ emu'.last.mnemonic = "CALL")
       => /\ \A r \in volatile_registers_ :
                get_register(heap', heap'[1], r)
                   = {make_symbolic_value(emu'.last.address, 0)}
          /\ \A r \in register_map \ volatile_registers_ :
                get_register(heap', heap'[1], r) = get_register(heap, heap[1], r)
          /\ heap'[1].memory_ = heap[1].memory_]_vars

\* A CALL was emulated on a context that had a concrete RSP, a value in
\* memory and a concrete value in a volatile register.
C32_Witness ==
    /\ emu.last.mnemonic = "CALL"
    /\ emu.prev.mnemonic = "PUSH"
    /\ emu.prev.operand.type = "REGISTER"
    /\ emu.prev.operand.reg \in volatile_registers_
    /\ \E v \in emu.prev.value : ~v.symbolic
    /\ \E v \in emu.last.rsp : ~v.symbolic
    /\ DOMAIN heap[1].memory_ # {}

\* ------------------------------------------------------------------------
\* Properties of add_field
\* ------------------------------------------------------------------------

\* The alias families: types that stand for one another at one size.
alias_families == {{"UInt", "Int", "Float"}, {"UInt", "Int", "Pointer"}, {"Struc"}}

\* The entry e covers the offset with a field of the same size, congruent
\* alignment and equal or stronger type than field.
covers_field(e, offset, field) ==
    /\ e.offset <= offset
    /\ offset < e.offset + e.field.count_ * e.field.size_
    /\ e.field.size_ = field.size_
    /\ e.offset % field.size_ = offset % field.size_
    /\ \E family \in alias_families : {e.field.type_, field.type_} \subseteq family
    /\ Field_Type[field.type_] <= Field_Type[e.field.type_]

\* C33: add_field inserts nothing when an existing field covers the new
\* field's offset with the same size, congruent alignment and an equal or
\* stronger type, whatever is stored between the two offsets.  Stated for
\* the add_field of add_int_field: when the call has inserted an entry, no
\* entry the struct held before covers it.
C33_CoveredFieldIsNoOp ==
    [][(/\ last_op'.op = "add_int_field"
        /\ Len(strucs'[last_op'.struc].fields_)
              = Len(strucs[last_op'.struc].fields_) + 1)
       => LET fields == strucs[last_op'.struc].fields_
              at == fields_upper_bound(fields, last_op'.offset) + 1
              new == strucs'[last_op'.struc].fields_[at]
          IN  \A i \in 1..Len(fields) :
                  ~covers_field(fields[i], new.offset, new.field)]_vars

\* C34: add_float_field(o, s, c) leaves the fields without the Int, UInt
\* and Float fields of size s at o, and with nothing more or with one Float
\* whose count is the largest of c and the counts of the fields removed.
C34_FloatCountFromRemoved ==
    [][last_op'.op = "add_float_field"
       => LET fields == strucs[last_op'.struc].fields_
              new == strucs'[last_op'.struc].fields_
              removed(e) == /\ e.offset = last_op'.offset
                            /\ e.field.size_ = last_op'.size
                            /\ e.field.type_ \in {"Int", "UInt", "Float"}
              kept == SelectSeq(fields, LAMBDA e : ~removed(e))
              count == SetMax({last_op'.count}
                                 \cup {fields[i].field.count_ :
                                          i \in {j \in 1..Len(fields) :
                                                    removed(fields[j])}})
          IN  \/ new = kept
              \/ \E at \in 1..Len(new) :
                    /\ new[at] = [offset |-> last_op'.offset,
                                  field  |-> Field("Float", last_op'.size,
                                                   count, Atomic)]
                    /\ kept = SubSeq(new, 1, at - 1)
                                 \o SubSeq(new, at + 1, Len(new))]_vars

\* The call c made on S with no other thread about.
apply_call(S, c) ==
    CASE c.op = "add_int_field" ->
             add_int_field(S, c.offset, c.size,
                           IF c.type = "UInt" THEN "Unsigned" ELSE "Signed",
                           c.count)
      [] c.op = "add_float_field" ->
             add_float_field(S, c.offset, c.size, c.count)
      [] c.op = "add_pointer_field" ->
             add_pointer_field(S, c.offset, c.count, Atomic)

\* What the calls of the threads T leave of S when they are made one after
\* another, in every order.
RECURSIVE sequential_results(_, _)
sequential_results(S, T) ==
    IF T = {} THEN {S}
    ELSE UNION {sequential_results(apply_call(S, mutators.call[t]), T \ {t}) :
                   t \in T}

\* C35: when the threads have returned from their add_*_field calls on one
\* Struc, its fields are what the calls leave in some sequential order,
\* and no call has walked fields_ while another thread changed it.
C35_AddsAreSerializable ==
    /\ \A t \in Mutators : mutators.call[t].pc # "crashed" /\ ~mutators.call[t].torn
    /\ (\A t \in Mutators : mutators.call[t].pc = "returned")
       => strucs[shared]
             \in sequential_results([fields_ |-> << >>, field_set_ |-> {}],
                                    Mutators)

\* C36: every call of merge returns: no call is made with the structs and
\* the arguments of a call of merge that is still running.
C36_MergeTerminates == struc_pc # "overflow"

\* C38: no Struc holds two entries of one offset and one size whose types
\* are both of {UInt, Int, Float} or, at size 8, both of {UInt, Int,
\* Pointer}.
C38_NoTwoAliasesAtOffset ==
    \A s \in Strucs :
        \A i, j \in 1..Len(strucs[s].fields_) :
            LET a == strucs[s].fields_[i]
                b == strucs[s].fields_[j]
            IN  (/\ i # j
                 /\ a.offset = b.offset
                 /\ a.field.size_ = b.field.size_)
                => /\ ~({a.field.type_, b.field.type_}
                           \subseteq {"UInt", "Int", "Float"})
                   /\ ~(/\ a.field.size_ = 8
                        /\ {a.field.type_, b.field.type_}
                               \subseteq {"UInt", "Int", "Pointer"})

\* C39: when OptimalCoverage::analyze has returned true, paths() is not
\* empty, and analyze_flo never reads the first element of an empty set of
\* paths.
C39_PathsNonEmpty ==
    /\ cov_pc = "done" => paths_ # << >>
    /\ cov_pc = "analyze_flo" =>
          \A i \in 1..Len(af_stack) : af_stack[i].paths # << >>

\* ------------------------------------------------------------------------
\* Properties of the hash and the memory of a context
\* ------------------------------------------------------------------------

\* The contexts are children of one parent.
siblings(c1, c2) ==
    /\ c1 # c2
    /\ heap[c1].parent # nullptr
    /\ heap[c1].parent = heap[c2].parent

merging(t) == mutators.call[t].pc = "merge"

\* The thread waits for a mutex another thread owns.
waits_for(t, u) ==
    /\ t # u
    /\ \/ /\ mutators.call[t].pc = "serialize"
          /\ mutators.merge_strucs_mutex_ = u
          /\ merging(u)
       \/ /\ merging(t)
          /\ mutators.call[t].events # << >>
          /\ Head(mutators.call[t].events).op = "lock"
          /\ mutators.mutex[Head(mutators.call[t].events).struc].owner = u

\* The threads t can reach along waits_for in at most n steps.
RECURSIVE waits_chain(_, _)
waits_chain(T, n) ==
    IF n = 0 THEN T
    ELSE waits_chain(T \cup {u \in Mutators : \E t \in T : waits_for(t, u)},
                     n - 1)

=============================================================================
